---------------------------- MODULE Spec2Model ----------------------------
(***************************************************************************)
(* PostmanLite request execution engine (App component): handleSend,       *)
(* handleStop, the fetch / stream continuations of handleSend, history     *)
(* recording, and the body-type switch of RequestPanel.                    *)
(*                                                                         *)
(* Strings are sequences of tokens (a token is a character or an atomic    *)
(* substring such as "Content-Type"), so that concatenation, slicing,      *)
(* case folding and percent-encoding are computed, not assumed.            *)
(*                                                                         *)
(* Scheduling is the JavaScript event loop: a user handler or a transport  *)
(* event runs to its next await as one step; a promise rejected by         *)
(* AbortController.abort() has its continuation (catch / finally of        *)
(* handleSend) queued as a microtask, which runs after the handler that    *)
(* called abort() has returned and before any other task.                  *)
(***************************************************************************)
EXTENDS Integers, Sequences, FiniteSets, TLC

VARIABLES
    request,            \* useState<RequestState>
    settings,           \* useState<AppSettings>
    cookie,             \* document.cookie value of CAS_SSO_COOKIE ("" if absent)
    response,           \* useState<ResponseState | null>
    loading,            \* useState(false)
    history,            \* useState<HistoryItem[]>
    injectedHeaders,    \* useState<Record<string,string> | null>
    abortControllerRef, \* useRef<AbortController | null>: 0 is null, else execution id
    execs,              \* the handleSend invocations, in call order
    microtasks,         \* executions whose awaited promise was rejected by abort()
    now,                \* Date.now()
    origin              \* history variable: which execution wrote the parts of response

vars == <<request, settings, cookie, response, loading, history, injectedHeaders,
          abortControllerRef, execs, microtasks, now, origin>>

----------------------------------------------------------------------------
(* Bounds *)

MaxSends == 3
MaxChunks == 2
MaxTicks == 1
MaxHeaderRows == 1
MaxGlobalRows == 1
MaxParamRows == 2
MaxFormRows == 2
ClockBase == 1234567

----------------------------------------------------------------------------
(* Strings *)

EmptyStr == <<>>

RECURSIVE Concat(_)
Concat(ss) == IF ss = <<>> THEN <<>> ELSE Head(ss) \o Concat(Tail(ss))

RECURSIVE Join(_, _)
Join(ss, sep) ==
    IF ss = <<>> THEN <<>>
    ELSE IF Len(ss) = 1 THEN ss[1]
    ELSE ss[1] \o sep \o Join(Tail(ss), sep)

\* String.prototype.toLowerCase on the header-name tokens of the model
LowerTok(t) ==
    CASE t = "Content-Type" -> "content-type"
      [] t = "CONTENT-TYPE" -> "content-type"
      [] t = "X" -> "x"
      [] OTHER -> t

ToLowerCase(s) == [i \in 1..Len(s) |-> LowerTok(s[i])]

\* encodeURIComponent: unreserved characters stay, the others become %XX
EncTok(t) ==
    CASE t = "&" -> <<"%", "2", "6">>
      [] t = "=" -> <<"%", "3", "D">>
      [] t = "?" -> <<"%", "3", "F">>
      [] t = "%" -> <<"%", "2", "5">>
      [] OTHER -> <<t>>

EncodeURIComponent(s) == Concat([i \in 1..Len(s) |-> EncTok(s[i])])

\* s.split(sep)[0]
RECURSIVE SplitFirst(_, _)
SplitFirst(s, sep) ==
    IF s = <<>> \/ Head(s) = sep THEN <<>>
    ELSE <<Head(s)>> \o SplitFirst(Tail(s), sep)

\* s.slice(-n)
SliceLast(s, n) ==
    IF Len(s) <= n THEN s ELSE SubSeq(s, Len(s) - n + 1, Len(s))

DigitTok(d) ==
    CASE d = 0 -> "0" [] d = 1 -> "1" [] d = 2 -> "2" [] d = 3 -> "3" [] d = 4 -> "4"
      [] d = 5 -> "5" [] d = 6 -> "6" [] d = 7 -> "7" [] d = 8 -> "8" [] OTHER -> "9"

\* Number.prototype.toString of a non-negative integer
RECURSIVE NumToString(_)
NumToString(n) ==
    IF n < 10 THEN <<DigitTok(n)>>
    ELSE NumToString(n \div 10) \o <<DigitTok(n % 10)>>

----------------------------------------------------------------------------
(* The headers object of handleSend: a Record<string,string>, kept in      *)
(* insertion order                                                         *)

HHas(h, k) == \E i \in 1..Len(h) : h[i].key = k

HGet(h, k) == h[CHOOSE i \in 1..Len(h) : h[i].key = k].value

\* headers[k] = v
HPut(h, k, v) ==
    IF HHas(h, k)
    THEN [i \in 1..Len(h) |-> IF h[i].key = k THEN [key |-> k, value |-> v] ELSE h[i]]
    ELSE Append(h, [key |-> k, value |-> v])

\* delete headers[k]
HDelete(h, k) == SelectSeq(h, LAMBDA e : e.key # k)

\* list.forEach(h => { if (h.enabled && h.key) headers[h.key] = h.value })
RECURSIVE MergeRows(_, _)
MergeRows(h, rows) ==
    IF rows = <<>> THEN h
    ELSE MergeRows(
            IF Head(rows).enabled /\ Head(rows).key # EmptyStr
            THEN HPut(h, Head(rows).key, Head(rows).value)
            ELSE h,
            Tail(rows))

\* Object.assign(headers, authHeaders)
RECURSIVE AssignAll(_, _)
AssignAll(h, src) ==
    IF src = <<>> THEN h
    ELSE AssignAll(HPut(h, Head(src).key, Head(src).value), Tail(src))

----------------------------------------------------------------------------
(* Request preparation in handleSend *)

\* crypto.subtle HMAC-SHA256 rendered as hex, taken as collision-free: the
\* digest is determined by, and determines, the pair (key, message)
hmacSha256(key, message) == <<"hmac(">> \o key \o <<",">> \o message \o <<")">>

\* variant: the credential is left out of the signed text
signStrNoAuthValue(appId, nonce, timestamp, authValue) == appId \o nonce \o timestamp

\* the plain text that is signed
signStr(appId, nonce, timestamp, authValue) == appId \o nonce \o timestamp \o authValue

\* variant: the nonce is the first six characters of the timestamp
AuthHeadersNonceFirst(appId, secureKey, timestamp, authValue) ==
    LET nonce == SubSeq(timestamp, 1, IF Len(timestamp) < 6 THEN Len(timestamp) ELSE 6)
    IN  << [key |-> <<"x-appid">>, value |-> appId],
           [key |-> <<"x-request-ts">>, value |-> timestamp],
           [key |-> <<"x-nonce">>, value |-> nonce],
           [key |-> <<"x-auth-type">>, value |-> <<"1">>],
           [key |-> <<"x-auth-value">>, value |-> authValue],
           [key |-> <<"x-sign">>,
            value |-> hmacSha256(secureKey, signStr(appId, nonce, timestamp, authValue))] >>

\* the authHeaders object literal of Cloud Docs Mode
AuthHeaders(appId, secureKey, timestamp, authValue) ==
    LET nonce == SliceLast(timestamp, 6)
    IN  << [key |-> <<"x-appid">>, value |-> appId],
           [key |-> <<"x-request-ts">>, value |-> timestamp],
           [key |-> <<"x-nonce">>, value |-> nonce],
           [key |-> <<"x-auth-type">>, value |-> <<"1">>],
           [key |-> <<"x-auth-value">>, value |-> authValue],
           [key |-> <<"x-sign">>,
            value |-> hmacSha256(secureKey, signStr(appId, nonce, timestamp, authValue))] >>

\* settings.cloudDocsMode && settings.cloudDocsAppId && settings.cloudDocsSecureKey
CloudDocsOn(set) ==
    set.cloudDocsMode /\ set.cloudDocsAppId # EmptyStr /\ set.cloudDocsSecureKey # EmptyStr

\* variant: the enabled flag is not looked at
EnabledRowsAnyFlag(rows) == SelectSeq(rows, LAMBDA p : p.key # EmptyStr)

\* rows.filter(p => p.enabled && p.key)
EnabledRows(rows) == SelectSeq(rows, LAMBDA p : p.enabled /\ p.key # EmptyStr)

QueryString(req) ==
    LET rows == EnabledRows(req.params)
    IN  Join([i \in 1..Len(rows) |->
                EncodeURIComponent(rows[i].key) \o <<"=">> \o EncodeURIComponent(rows[i].value)],
             <<"&">>)

FinalUrl(req) ==
    IF QueryString(req) # EmptyStr
    THEN SplitFirst(req.url, "?") \o <<"?">> \o QueryString(req)
    ELSE req.url

\* variant: only GET is taken as body-less
HasBodyGetOnly(req) == req.method # "GET" /\ req.bodyType # "none"

HasBody(req) == req.method # "GET" /\ req.method # "HEAD" /\ req.bodyType # "none"

NoFile == <<>>

\* one FormData.append in the form-data branch
FormPart(item) ==
    IF item.type = "file" /\ item.file # NoFile
    THEN [name |-> item.key, kind |-> "file", value |-> item.file]
    ELSE [name |-> item.key, kind |-> "text", value |-> item.value]

FormDataBody(req) ==
    LET rows == EnabledRows(req.bodyFormData)
    IN  [i \in 1..Len(rows) |-> FormPart(rows[i])]

UrlEncodedBody(req) ==
    LET rows == EnabledRows(req.bodyFormUrlEncoded)
    IN  [i \in 1..Len(rows) |-> [name |-> rows[i].key, kind |-> "text", value |-> rows[i].value]]

\* the body handed to fetch: kind "undefined" | "file" | "formdata" | "urlencoded" | "string"
PrepareBody(req) ==
    IF ~HasBody(req) THEN [kind |-> "undefined", text |-> EmptyStr, parts |-> <<>>]
    ELSE IF req.bodyType = "file" /\ req.file # NoFile
         THEN [kind |-> "file", text |-> req.file, parts |-> <<>>]
    ELSE IF req.bodyType = "form-data"
         THEN [kind |-> "formdata", text |-> EmptyStr, parts |-> FormDataBody(req)]
    ELSE IF req.bodyType = "x-www-form-urlencoded"
         THEN [kind |-> "urlencoded", text |-> EmptyStr, parts |-> UrlEncodedBody(req)]
    ELSE [kind |-> "string", text |-> req.bodyContent, parts |-> <<>>]

\* the header changes of the body preparation
BodyHeaders(h, req) ==
    IF HasBody(req) /\ req.bodyType = "form-data"
    THEN HDelete(HDelete(h, <<"Content-Type">>), <<"content-type">>)
    ELSE h

\* variant: the request headers are merged first, global and injected ones on top
FetchCallRequestFirst(req, set, h) ==
    [ url |-> FinalUrl(req),
      method |-> req.method,
      headers |-> BodyHeaders(AssignAll(MergeRows(<<>>, req.headers), h), req),
      body |-> PrepareBody(req),
      mode |-> set.fetchMode,
      credentials |-> set.fetchCredentials,
      duplex |-> IF HasBody(req) /\ (req.stream \/ req.bodyType = "file")
                 THEN "half" ELSE "unset" ]

\* the arguments of the fetch call; h holds the global and the injected headers
FetchCall(req, set, h) ==
    [ url |-> FinalUrl(req),
      method |-> req.method,
      headers |-> BodyHeaders(MergeRows(h, req.headers), req),
      body |-> PrepareBody(req),
      mode |-> set.fetchMode,
      credentials |-> set.fetchCredentials,
      duplex |-> IF HasBody(req) /\ (req.stream \/ req.bodyType = "file")
                 THEN "half" ELSE "unset" ]

NoCall ==
    [ url |-> EmptyStr, method |-> "", headers |-> <<>>,
      body |-> [kind |-> "undefined", text |-> EmptyStr, parts |-> <<>>],
      mode |-> "", credentials |-> "", duplex |-> "unset" ]

----------------------------------------------------------------------------
(* Initial values (constants.ts, DEFAULT_SETTINGS) *)

KV(id, key, value, enabled) ==
    [id |-> id, key |-> key, value |-> value, enabled |-> enabled]

EmptyRow == KV(<<"1">>, EmptyStr, EmptyStr, TRUE)

EmptyFormRow ==
    [id |-> <<"1">>, key |-> EmptyStr, value |-> EmptyStr, type |-> "text",
     file |-> NoFile, enabled |-> TRUE]

INITIAL_HEADERS ==
    << KV(<<"1">>, <<"Content-Type">>, <<"application/json">>, TRUE),
       KV(<<"2">>, <<"Accept">>, <<"*/*">>, TRUE) >>

INITIAL_REQUEST ==
    [ id |-> EmptyStr,
      method |-> "GET",
      url |-> <<"https://jsonplaceholder.typicode.com/todos/1">>,
      params |-> <<EmptyRow>>,
      headers |-> INITIAL_HEADERS,
      bodyType |-> "json",
      bodyContent |-> <<"{", "}">>,
      file |-> NoFile,
      bodyFormData |-> <<EmptyFormRow>>,
      bodyFormUrlEncoded |-> <<EmptyRow>>,
      stream |-> FALSE ]

DEFAULT_SETTINGS ==
    [ fetchMode |-> "cors",
      fetchCredentials |-> "omit",
      globalHeaders |-> <<EmptyRow>>,
      cloudDocsMode |-> FALSE,
      cloudDocsAppId |-> EmptyStr,
      cloudDocsSecureKey |-> EmptyStr ]

\* settings as saved by the settings dialog with Cloud Docs Mode filled in
CloudSettings ==
    [DEFAULT_SETTINGS EXCEPT !.cloudDocsMode = TRUE,
                             !.cloudDocsAppId = <<"a", "p">>,
                             !.cloudDocsSecureKey = <<"k">>]

----------------------------------------------------------------------------
(* The transport: what fetch, reader.read() and res.text() can yield *)

Res(status, statusText, contentType, type, hasBody) ==
    [ status |-> status, statusText |-> statusText, ok |-> status \in 200..299,
      contentType |-> contentType, type |-> type, hasBody |-> hasBody ]

Responses ==
    { Res(200, <<"OK">>, <<"application/json", "; charset=utf-8">>, "basic", TRUE),
      Res(404, EmptyStr, <<"text/plain">>, "basic", TRUE),
      Res(500, EmptyStr, <<"application/json">>, "basic", TRUE),
      Res(204, EmptyStr, EmptyStr, "basic", FALSE),
      Res(0, EmptyStr, EmptyStr, "opaque", FALSE) }

NoRes == Res(0, EmptyStr, EmptyStr, "none", FALSE)

\* res.headers.forEach((val, key) => resHeaders[key] = val)
ResHeaders(res) ==
    IF res.contentType = EmptyStr THEN <<>>
    ELSE <<[key |-> <<"content-type">>, value |-> res.contentType]>>

\* the decoded text of one chunk of the body stream
Chunks == { <<"1">>, <<"x">> }

\* the texts a fully drained body can hold
RECURSIVE Texts(_)
Texts(n) ==
    IF n = 0 THEN { <<>> }
    ELSE Texts(n - 1) \cup { t \o c : t \in Texts(n - 1), c \in Chunks }

\* JSON.parse succeeds: over the tokens of the model, exactly on a number literal
JsonParses(text) == text # EmptyStr /\ \A i \in 1..Len(text) : text[i] = "1"

\* contentType.includes('application/json')
IncludesJson(contentType) == \E i \in 1..Len(contentType) : contentType[i] = "application/json"

\* new TextEncoder().encode(text).length
ByteLength(text) == Len(text)

----------------------------------------------------------------------------
(* The body on the wire: bytes, delivered in chunks.  A byte is "a" (an    *)
(* ASCII byte), "C3" (the lead byte of a two-byte sequence) or "A9" (a     *)
(* continuation byte); "e'" is the character C3 A9 encodes and "FFFD" the  *)
(* replacement character.                                                  *)

\* the UTF-8 decoder run over bytes, entered with the pending bytes pend of
\* an unfinished sequence: the text it emits and the bytes still pending
RECURSIVE Utf8Steps(_, _)
Utf8Steps(bytes, pend) ==
    IF bytes = <<>> THEN [text |-> EmptyStr, pend |-> pend]
    ELSE LET b == Head(bytes)
             emit == IF pend = <<>>
                     THEN (IF b = "a" THEN <<"a">> ELSE IF b = "C3" THEN <<>> ELSE <<"FFFD">>)
                     ELSE (IF b = "A9" THEN <<"e'">>
                           ELSE IF b = "a" THEN <<"FFFD", "a">>
                           ELSE <<"FFFD">>)
             next == IF b = "C3" THEN <<"C3">> ELSE <<>>
             rest == Utf8Steps(Tail(bytes), next)
         IN  [text |-> emit \o rest.text, pend |-> rest.pend]

\* res.text(): the whole body decoded, an unfinished sequence at the end
\* replaced by U+FFFD
Utf8Decode(bytes) ==
    LET r == Utf8Steps(bytes, <<>>)
    IN  r.text \o (IF r.pend # <<>> THEN <<"FFFD">> ELSE <<>>)

\* decoder.decode(value, {stream: true}) on chunk k of chunks, the decoder having
\* been fed the chunks before it
DecodeChunk(chunks, k) ==
    LET before == Utf8Steps(Concat(SubSeq(chunks, 1, k - 1)), <<>>)
    IN  Utf8Steps(chunks[k], before.pend).text

\* the values reader.read() can yield
ByteChunks ==
    { <<"a">>, <<"C3">>, <<"A9">>, <<"C3", "A9">>, <<"a", "C3">>, <<"A9", "a">> }

\* the bodies of at most n chunks
RECURSIVE Bodies(_)
Bodies(n) ==
    IF n = 0 THEN { <<>> }
    ELSE Bodies(n - 1) \cup { Append(cs, c) : cs \in Bodies(n - 1), c \in ByteChunks }

\* a response with its body
WireRes(contentType, chunks) ==
    [ status |-> 200, statusText |-> <<"OK">>, ok |-> TRUE, contentType |-> contentType,
      type |-> "basic", hasBody |-> TRUE, chunks |-> chunks ]

WireResponses ==
    { WireRes(ct, cs) : ct \in {<<"text/plain">>, <<"application/json">>},
                        cs \in Bodies(MaxChunks) }

----------------------------------------------------------------------------
(* Executions: one per handleSend invocation.  pc is the await at which    *)
(* the invocation is suspended:                                            *)
(*   "sign"  await hmacSha256      "fetch" await fetch                     *)
(*   "read"  await reader.read()   "text"  await res.text()                *)
(*   "rejected"  the awaited promise was rejected by abort(), the catch    *)
(*               block is queued as a microtask                            *)
(*   "settled" | "failed" | "cancelled"  the invocation has returned       *)
(* aborted ("no" | "stop" | "send") is signal.aborted together with the    *)
(* caller of abort(); overtaken is a history field: a later handleSend     *)
(* began while this execution was in its streaming loop.                   *)

Pending == {"sign", "fetch", "read", "text", "rejected"}
AwaitsTransport == {"fetch", "read", "text"}

NewExec(req, set, hist, start) ==
    [ pc |-> "sign", aborted |-> "no", req |-> req, set |-> set, hist |-> hist,
      startTime |-> start, timestamp |-> EmptyStr, authValue |-> EmptyStr,
      headers |-> <<>>, call |-> NoCall, res |-> NoRes,
      received |-> EmptyStr, nread |-> 0, overtaken |-> FALSE ]

\* handleSend returns: its locals and the values it closed over are gone; what
\* stays is how it ended and whether, and by whom, its controller was aborted
Return(ex, pc) ==
    [NewExec(INITIAL_REQUEST, DEFAULT_SETTINGS, <<>>, 0) EXCEPT !.pc = pc,
                                                               !.aborted = ex.aborted]

Snapshot(status, statusText, headers, data, parsed, size, time, contentType, isError) ==
    [ status |-> status, statusText |-> statusText, headers |-> headers, data |-> data,
      parsed |-> parsed, size |-> size, time |-> time, contentType |-> contentType,
      isError |-> isError ]

\* controller.abort(): sets signal.aborted and rejects the promise the execution
\* awaits from the transport; a second abort() of the same controller does nothing
AbortExec(ex, why) ==
    IF ex.aborted # "no" THEN ex
    ELSE [ex EXCEPT !.aborted = why,
                    !.pc = IF ex.pc \in AwaitsTransport THEN "rejected" ELSE ex.pc]

Rejects(ex) == ex.aborted = "no" /\ ex.pc \in AwaitsTransport

HistoryCap == 50

\* variant: the request is recorded as it is, blobs included
AddToHistoryWithBlobs(req, hist) ==
    LET newItem ==
            [ id |-> NumToString(now), method |-> req.method, url |-> req.url,
              params |-> req.params, headers |-> req.headers, bodyType |-> req.bodyType,
              bodyContent |-> req.bodyContent, file |-> req.file,
              bodyFormData |-> req.bodyFormData,
              bodyFormUrlEncoded |-> req.bodyFormUrlEncoded, stream |-> req.stream,
              timestamp |-> now, pinned |-> FALSE ]
        all == <<newItem>> \o hist
    IN  SubSeq(all, 1, IF Len(all) < HistoryCap THEN Len(all) ELSE HistoryCap)

\* variant: no cap on the length of the list
AddToHistoryUncapped(req, hist) ==
    LET newItem ==
            [ id |-> NumToString(now), method |-> req.method, url |-> req.url,
              params |-> req.params, headers |-> req.headers, bodyType |-> req.bodyType,
              bodyContent |-> req.bodyContent, file |-> NoFile,
              bodyFormData |-> [i \in 1..Len(req.bodyFormData) |->
                                   [req.bodyFormData[i] EXCEPT !.file = NoFile]],
              bodyFormUrlEncoded |-> req.bodyFormUrlEncoded, stream |-> req.stream,
              timestamp |-> now, pinned |-> FALSE ]
    IN  <<newItem>> \o hist

\* addToHistory(req), with the history array of the render handleSend closed over
AddToHistory(req, hist) ==
    LET newItem ==
            [ id |-> NumToString(now), method |-> req.method, url |-> req.url,
              params |-> req.params, headers |-> req.headers, bodyType |-> req.bodyType,
              bodyContent |-> req.bodyContent, file |-> NoFile,
              bodyFormData |-> [i \in 1..Len(req.bodyFormData) |->
                                   [req.bodyFormData[i] EXCEPT !.file = NoFile]],
              bodyFormUrlEncoded |-> req.bodyFormUrlEncoded, stream |-> req.stream,
              timestamp |-> now, pinned |-> FALSE ]
        all == <<newItem>> \o hist
    IN  SubSeq(all, 1, IF Len(all) < HistoryCap THEN Len(all) ELSE HistoryCap)

\* the rest of handleSend after the Cloud Docs block, up to `await fetch`;
\* with the signal already aborted fetch rejects at once and catch / finally run
\* variant: the request is read again when the fetch call is made
BeginFetchLatest(ex, h) ==
    IF ex.aborted # "no" THEN Return(ex, "cancelled")
    ELSE [ex EXCEPT !.headers = h, !.call = FetchCall(request, ex.set, h), !.pc = "fetch"]

BeginFetch(ex, h) ==
    IF ex.aborted # "no" THEN Return(ex, "cancelled")
    ELSE [ex EXCEPT !.headers = h, !.call = FetchCall(ex.req, ex.set, h), !.pc = "fetch"]

NoOrigin == [base |-> 0, data |-> 0]

\* variant: the failure is published as a server error
ErrorSnapshotAsServerError(ex) ==
    Snapshot(500, <<"Error">>, <<>>, <<"Failed to fetch", "\n\nRequest Failed or Aborted.">>,
             FALSE, 0, now - ex.startTime, <<"text/plain">>, TRUE)

ErrorSnapshot(ex) ==
    Snapshot(0, <<"Error">>, <<>>, <<"Failed to fetch", "\n\nRequest Failed or Aborted.">>,
             FALSE, 0, now - ex.startTime, <<"text/plain">>, TRUE)

\* variant: the opaque result is published the way the buffered branch publishes a
\* response, from its status, its ok flag and its empty body
OpaqueSnapshotAsResponse(ex) ==
    Snapshot(0, <<"Error">>, <<>>, EmptyStr, FALSE, 0, now - ex.startTime, EmptyStr, TRUE)

OpaqueSnapshot(ex) ==
    Snapshot(0, <<"Opaque">>, <<>>,
             <<"Opaque response received (no-cors mode). No data available.">>,
             FALSE, 0, now - ex.startTime, <<"opaque/unknown">>, FALSE)

\* res.statusText || (res.ok ? 'OK' : 'Error')
StatusText(res) ==
    IF res.statusText # EmptyStr THEN res.statusText
    ELSE IF res.ok THEN <<"OK">> ELSE <<"Error">>

----------------------------------------------------------------------------
(* User handlers *)

handleSend ==
    /\ microtasks = <<>>
    /\ Len(execs) < MaxSends
    /\ LET e == Len(execs) + 1
           supersede == loading /\ abortControllerRef # 0
           old == IF supersede
                  THEN [execs EXCEPT ![abortControllerRef] = AbortExec(@, "send")]
                  ELSE execs
           h0 == MergeRows(<<>>, settings.globalHeaders)
           ex0 == NewExec(request, settings, history, now)
           ex == IF CloudDocsOn(settings)
                 THEN [ex0 EXCEPT !.pc = "sign", !.headers = h0,
                                  !.timestamp = NumToString(now), !.authValue = cookie]
                 ELSE BeginFetch(ex0, h0)
           seen == [i \in DOMAIN old |->
                       [old[i] EXCEPT !.overtaken = @ \/ execs[i].pc = "read"]]
       IN  /\ execs' = Append(seen, ex)
           /\ microtasks' = IF supersede /\ Rejects(execs[abortControllerRef])
                            THEN Append(microtasks, abortControllerRef)
                            ELSE microtasks
           /\ abortControllerRef' = e
    /\ loading' = TRUE
    /\ response' = <<>>
    /\ origin' = NoOrigin
    /\ UNCHANGED <<request, settings, cookie, history, injectedHeaders, now>>

\* variant: no test of the handle, and the response panel is cleared
handleStopAlways ==
    /\ microtasks = <<>>
    /\ IF abortControllerRef # 0
       THEN /\ execs' = [execs EXCEPT ![abortControllerRef] = AbortExec(@, "stop")]
            /\ microtasks' = IF Rejects(execs[abortControllerRef])
                             THEN Append(microtasks, abortControllerRef)
                             ELSE microtasks
       ELSE UNCHANGED <<execs, microtasks>>
    /\ loading' = FALSE
    /\ response' = <<>>
    /\ origin' = NoOrigin
    /\ UNCHANGED <<request, settings, cookie, history, injectedHeaders,
                   abortControllerRef, now>>

\* variant: stopping also empties the response panel
handleStopClearing ==
    /\ microtasks = <<>>
    /\ IF abortControllerRef # 0
       THEN /\ execs' = [execs EXCEPT ![abortControllerRef] = AbortExec(@, "stop")]
            /\ microtasks' = IF Rejects(execs[abortControllerRef])
                             THEN Append(microtasks, abortControllerRef)
                             ELSE microtasks
            /\ loading' = FALSE
            /\ response' = <<>>
            /\ origin' = NoOrigin
       ELSE UNCHANGED <<execs, microtasks, loading, response, origin>>
    /\ UNCHANGED <<request, settings, cookie, history, injectedHeaders,
                   abortControllerRef, now>>

handleStop ==
    /\ microtasks = <<>>
    /\ IF abortControllerRef # 0
       THEN /\ execs' = [execs EXCEPT ![abortControllerRef] = AbortExec(@, "stop")]
            /\ microtasks' = IF Rejects(execs[abortControllerRef])
                             THEN Append(microtasks, abortControllerRef)
                             ELSE microtasks
            /\ loading' = FALSE
       ELSE UNCHANGED <<execs, microtasks, loading>>
    /\ UNCHANGED <<request, settings, cookie, response, history, injectedHeaders,
                   abortControllerRef, now, origin>>

\* updateField('stream', !request.stream)
toggleStream ==
    /\ microtasks = <<>>
    /\ request' = [request EXCEPT !.stream = ~@]
    /\ UNCHANGED <<settings, cookie, response, loading, history, injectedHeaders,
                   abortControllerRef, execs, microtasks, now, origin>>

----------------------------------------------------------------------------
(* The request editor (RequestPanel): each handler hands a new RequestState *)
(* to onChange, which is setRequest                                         *)

ContentTypeOf(type) ==
    CASE type = "json" -> <<"application/json">>
      [] type = "text" -> <<"text/plain">>
      [] type = "x-www-form-urlencoded" -> <<"application/x-www-form-urlencoded">>
      [] OTHER -> EmptyStr

\* variant: only the spelling Content-Type is taken out of the list
SwitchedHeadersExactKey(headers, type) ==
    LET kept == SelectSeq(headers, LAMBDA h : h.key # <<"Content-Type">>)
        newHeaders ==
            IF type \in {"json", "text", "x-www-form-urlencoded"}
            THEN <<KV(NumToString(now), <<"Content-Type">>, ContentTypeOf(type), TRUE)>> \o kept
            ELSE kept
        lastItem == newHeaders[Len(newHeaders)]
    IN  IF newHeaders = <<>> \/ lastItem.key # EmptyStr \/ lastItem.value # EmptyStr
        THEN Append(newHeaders, KV(NumToString(now) \o <<"empty">>, EmptyStr, EmptyStr, TRUE))
        ELSE newHeaders

\* the header list handleBodyTypeChange builds
SwitchedHeaders(headers, type) ==
    LET kept == SelectSeq(headers, LAMBDA h : ToLowerCase(h.key) # <<"content-type">>)
        newHeaders ==
            IF type \in {"json", "text", "x-www-form-urlencoded"}
            THEN <<KV(NumToString(now), <<"Content-Type">>, ContentTypeOf(type), TRUE)>> \o kept
            ELSE kept
        lastItem == newHeaders[Len(newHeaders)]
    IN  IF newHeaders = <<>> \/ lastItem.key # EmptyStr \/ lastItem.value # EmptyStr
        THEN Append(newHeaders, KV(NumToString(now) \o <<"empty">>, EmptyStr, EmptyStr, TRUE))
        ELSE newHeaders

\* variant: the switch starts the new variant from an empty editor
handleBodyTypeChangeClearing(type) ==
    /\ microtasks = <<>>
    /\ request' = [request EXCEPT !.bodyType = type,
                                  !.headers = SwitchedHeaders(request.headers, type),
                                  !.bodyContent = EmptyStr,
                                  !.file = NoFile]
    /\ UNCHANGED <<settings, cookie, response, loading, history, injectedHeaders,
                   abortControllerRef, execs, microtasks, now, origin>>

handleBodyTypeChange(type) ==
    /\ microtasks = <<>>
    /\ request' = [request EXCEPT !.bodyType = type,
                                  !.headers = SwitchedHeaders(request.headers, type)]
    /\ UNCHANGED <<settings, cookie, response, loading, history, injectedHeaders,
                   abortControllerRef, execs, microtasks, now, origin>>

\* updateField('file', e.target.files[0]) / updateField('file', null)
handleFileChange(file) ==
    /\ microtasks = <<>>
    /\ request' = [request EXCEPT !.file = file]
    /\ UNCHANGED <<settings, cookie, response, loading, history, injectedHeaders,
                   abortControllerRef, execs, microtasks, now, origin>>

\* updateField('bodyContent', e.target.value) of the json / text editor
updateBodyContent(text) ==
    /\ microtasks = <<>>
    /\ request.bodyType \in {"json", "text"}
    /\ request' = [request EXCEPT !.bodyContent = text]
    /\ UNCHANGED <<settings, cookie, response, loading, history, injectedHeaders,
                   abortControllerRef, execs, microtasks, now, origin>>

----------------------------------------------------------------------------
(* The history list (Sidebar): clear, pin and delete *)

\* setHistory([])
clearHistory ==
    /\ microtasks = <<>>
    /\ history' = <<>>
    /\ UNCHANGED <<request, settings, cookie, response, loading, injectedHeaders,
                   abortControllerRef, execs, microtasks, now, origin>>

\* history.map(item => item.id === id ? { ...item, pinned: !item.pinned } : item)
handleTogglePinHistory(id) ==
    /\ microtasks = <<>>
    /\ history' = [i \in 1..Len(history) |->
                      IF history[i].id = id
                      THEN [history[i] EXCEPT !.pinned = ~@]
                      ELSE history[i]]
    /\ UNCHANGED <<request, settings, cookie, response, loading, injectedHeaders,
                   abortControllerRef, execs, microtasks, now, origin>>

\* history.filter(item => item.id !== id)
handleDeleteHistory(id) ==
    /\ microtasks = <<>>
    /\ history' = SelectSeq(history, LAMBDA item : item.id # id)
    /\ UNCHANGED <<request, settings, cookie, response, loading, injectedHeaders,
                   abortControllerRef, execs, microtasks, now, origin>>

----------------------------------------------------------------------------
(* Continuations of handleSend *)

\* variant: the catch block does not tell an AbortError from another error
RunMicrotaskAsError ==
    /\ microtasks # <<>>
    /\ LET e == Head(microtasks)
       IN  /\ execs' = [execs EXCEPT ![e] = Return(@, "cancelled")]
           /\ response' = <<ErrorSnapshot(execs[e])>>
           /\ origin' = [base |-> e, data |-> e]
    /\ microtasks' = Tail(microtasks)
    /\ loading' = FALSE
    /\ abortControllerRef' = 0
    /\ UNCHANGED <<request, settings, cookie, history, injectedHeaders, now>>

\* variant: the catch block runs but there is no finally block
RunMicrotaskNoFinally ==
    /\ microtasks # <<>>
    /\ LET e == Head(microtasks)
       IN  execs' = [execs EXCEPT ![e] = Return(@, "cancelled")]
    /\ microtasks' = Tail(microtasks)
    /\ UNCHANGED <<request, settings, cookie, response, loading, history, injectedHeaders,
                   abortControllerRef, now, origin>>

\* catch (AbortError: nothing) and finally of an execution whose awaited
\* promise abort() rejected
RunMicrotask ==
    /\ microtasks # <<>>
    /\ LET e == Head(microtasks)
       IN  execs' = [execs EXCEPT ![e] = Return(@, "cancelled")]
    /\ microtasks' = Tail(microtasks)
    /\ loading' = FALSE
    /\ abortControllerRef' = 0
    /\ UNCHANGED <<request, settings, cookie, response, history, injectedHeaders,
                   now, origin>>

\* hmacSha256 resolves: the headers are injected and the request goes out
SignResolve(e) ==
    /\ microtasks = <<>>
    /\ execs[e].pc = "sign"
    /\ LET ex == execs[e]
           authHeaders == AuthHeaders(ex.set.cloudDocsAppId, ex.set.cloudDocsSecureKey,
                                      ex.timestamp, ex.authValue)
       IN  /\ injectedHeaders' = <<authHeaders>>
           /\ execs' = [execs EXCEPT ![e] = BeginFetch(ex, AssignAll(ex.headers, authHeaders))]
           /\ IF ex.aborted # "no"
              THEN loading' = FALSE /\ abortControllerRef' = 0
              ELSE UNCHANGED <<loading, abortControllerRef>>
    /\ UNCHANGED <<request, settings, cookie, response, history, microtasks, now, origin>>

\* variant: a failed signature fails the send
SignRejectFailing(e) ==
    /\ microtasks = <<>>
    /\ execs[e].pc = "sign"
    /\ response' = <<ErrorSnapshot(execs[e])>>
    /\ origin' = [base |-> e, data |-> e]
    /\ execs' = [execs EXCEPT ![e] = Return(@, "failed")]
    /\ loading' = FALSE
    /\ abortControllerRef' = 0
    /\ UNCHANGED <<request, settings, cookie, history, injectedHeaders, microtasks, now>>

\* hmacSha256 throws: the error is logged and the request goes out without them
SignReject(e) ==
    /\ microtasks = <<>>
    /\ execs[e].pc = "sign"
    /\ LET ex == execs[e]
       IN  /\ execs' = [execs EXCEPT ![e] = BeginFetch(ex, ex.headers)]
           /\ IF ex.aborted # "no"
              THEN loading' = FALSE /\ abortControllerRef' = 0
              ELSE UNCHANGED <<loading, abortControllerRef>>
    /\ UNCHANGED <<request, settings, cookie, response, history, injectedHeaders,
                   microtasks, now, origin>>

\* variant: the header snapshot is published in buffered mode too
FetchResolveEarlySnapshot(e, res) ==
    /\ microtasks = <<>>
    /\ execs[e].pc = "fetch"
    /\ LET ex == execs[e]
       IN  IF res.type = "opaque"
           THEN /\ response' = <<OpaqueSnapshot(ex)>>
                /\ origin' = [base |-> e, data |-> e]
                /\ history' = AddToHistory(ex.req, ex.hist)
                /\ loading' = FALSE
                /\ abortControllerRef' = 0
                /\ execs' = [execs EXCEPT ![e] = Return(ex, "settled")]
           ELSE /\ response' = <<Snapshot(res.status, StatusText(res), ResHeaders(res),
                                          EmptyStr, FALSE, 0, now - ex.startTime,
                                          res.contentType, ~res.ok)>>
                /\ origin' = [base |-> e, data |-> e]
                /\ execs' = [execs EXCEPT ![e] =
                                [ex EXCEPT !.res = res,
                                           !.pc = IF ex.req.stream /\ res.hasBody
                                                  THEN "read" ELSE "text"]]
                /\ UNCHANGED <<history, loading, abortControllerRef>>
    /\ UNCHANGED <<request, settings, cookie, injectedHeaders, microtasks, now>>

\* fetch resolves with the response headers
FetchResolve(e, res) ==
    /\ microtasks = <<>>
    /\ execs[e].pc = "fetch"
    /\ LET ex == execs[e]
       IN  IF res.type = "opaque"
           THEN /\ response' = <<OpaqueSnapshot(ex)>>
                /\ origin' = [base |-> e, data |-> e]
                /\ history' = AddToHistory(ex.req, ex.hist)
                /\ loading' = FALSE
                /\ abortControllerRef' = 0
                /\ execs' = [execs EXCEPT ![e] = Return(ex, "settled")]
           ELSE IF ex.req.stream /\ res.hasBody
           THEN /\ response' = <<Snapshot(res.status, StatusText(res), ResHeaders(res),
                                          EmptyStr, FALSE, 0, now - ex.startTime,
                                          res.contentType, ~res.ok)>>
                /\ origin' = [base |-> e, data |-> e]
                /\ execs' = [execs EXCEPT ![e] = [ex EXCEPT !.res = res, !.pc = "read"]]
                /\ UNCHANGED <<history, loading, abortControllerRef>>
           ELSE /\ execs' = [execs EXCEPT ![e] = [ex EXCEPT !.res = res, !.pc = "text"]]
                /\ UNCHANGED <<response, origin, history, loading, abortControllerRef>>
    /\ UNCHANGED <<request, settings, cookie, injectedHeaders, microtasks, now>>

\* variant: a request that failed on the network is recorded too
TransportRejectRecording(e) ==
    /\ microtasks = <<>>
    /\ execs[e].pc \in AwaitsTransport
    /\ response' = <<ErrorSnapshot(execs[e])>>
    /\ origin' = [base |-> e, data |-> e]
    /\ history' = AddToHistory(execs[e].req, execs[e].hist)
    /\ execs' = [execs EXCEPT ![e] = Return(@, "failed")]
    /\ loading' = FALSE
    /\ abortControllerRef' = 0
    /\ UNCHANGED <<request, settings, cookie, injectedHeaders, microtasks, now>>

\* fetch, reader.read() or res.text() rejects with a network error: catch, finally
TransportReject(e) ==
    /\ microtasks = <<>>
    /\ execs[e].pc \in AwaitsTransport
    /\ response' = <<ErrorSnapshot(execs[e])>>
    /\ origin' = [base |-> e, data |-> e]
    /\ execs' = [execs EXCEPT ![e] = Return(@, "failed")]
    /\ loading' = FALSE
    /\ abortControllerRef' = 0
    /\ UNCHANGED <<request, settings, cookie, history, injectedHeaders, microtasks, now>>

\* variant: a chunk update that does not read the clock
ReadChunkNoElapsed(e, chunk) ==
    /\ microtasks = <<>>
    /\ execs[e].pc = "read"
    /\ execs[e].nread < MaxChunks
    /\ LET ex == execs[e]
           receivedText == ex.received \o chunk
       IN  /\ IF response = <<>>
              THEN UNCHANGED <<response, origin>>
              ELSE /\ response' = <<[response[1] EXCEPT
                                        !.data = receivedText,
                                        !.size = ByteLength(receivedText),
                                        !.time = 0]>>
                   /\ origin' = [origin EXCEPT !.data = e]
           /\ execs' = [execs EXCEPT ![e] = [ex EXCEPT
                            !.received = receivedText,
                            !.nread = @ + 1]]
    /\ UNCHANGED <<request, settings, cookie, loading, history, injectedHeaders,
                   abortControllerRef, microtasks, now>>

\* reader.read() yields a chunk: one turn of the streaming loop
ReadChunk(e, chunk) ==
    /\ microtasks = <<>>
    /\ execs[e].pc = "read"
    /\ execs[e].nread < MaxChunks
    /\ LET ex == execs[e]
           receivedText == ex.received \o chunk
       IN  /\ IF response = <<>>
              THEN UNCHANGED <<response, origin>>
              ELSE /\ response' = <<[response[1] EXCEPT
                                        !.data = receivedText,
                                        !.size = ByteLength(receivedText),
                                        !.time = now - ex.startTime]>>
                   /\ origin' = [origin EXCEPT !.data = e]
           /\ execs' = [execs EXCEPT ![e] = [ex EXCEPT
                            !.received = receivedText,
                            !.nread = @ + 1]]
    /\ UNCHANGED <<request, settings, cookie, loading, history, injectedHeaders,
                   abortControllerRef, microtasks, now>>

\* reader.read() yields done: the loop ends, the request is recorded
ReadDone(e) ==
    /\ microtasks = <<>>
    /\ execs[e].pc = "read"
    /\ history' = AddToHistory(execs[e].req, execs[e].hist)
    /\ execs' = [execs EXCEPT ![e] = Return(@, "settled")]
    /\ loading' = FALSE
    /\ abortControllerRef' = 0
    /\ UNCHANGED <<request, settings, cookie, response, injectedHeaders, microtasks,
                   now, origin>>

\* variant: JSON.parse is tried on every body, and a body that is announced as
\* JSON and does not parse is published as an error
TextResolveStrict(e, text) ==
    /\ microtasks = <<>>
    /\ execs[e].pc = "text"
    /\ execs[e].res.hasBody \/ text = EmptyStr
    /\ LET ex == execs[e]
           res == ex.res
           parsed == JsonParses(text)
       IN  /\ response' = <<Snapshot(res.status, StatusText(res), ResHeaders(res), text,
                                     parsed, ByteLength(text), now - ex.startTime,
                                     res.contentType,
                                     ~res.ok \/ (IncludesJson(res.contentType) /\ ~parsed))>>
           /\ execs' = [execs EXCEPT ![e] = Return(ex, "settled")]
           /\ history' = AddToHistory(ex.req, ex.hist)
    /\ origin' = [base |-> e, data |-> e]
    /\ loading' = FALSE
    /\ abortControllerRef' = 0
    /\ UNCHANGED <<request, settings, cookie, injectedHeaders, microtasks, now>>

\* res.text() resolves: the buffered snapshot
TextResolve(e, text) ==
    /\ microtasks = <<>>
    /\ execs[e].pc = "text"
    /\ execs[e].res.hasBody \/ text = EmptyStr
    /\ LET ex == execs[e]
           res == ex.res
           parsed == IncludesJson(res.contentType) /\ JsonParses(text)
       IN  /\ response' = <<Snapshot(res.status, StatusText(res), ResHeaders(res), text,
                                     parsed, ByteLength(text), now - ex.startTime,
                                     res.contentType, ~res.ok)>>
           /\ execs' = [execs EXCEPT ![e] = Return(ex, "settled")]
           /\ history' = AddToHistory(ex.req, ex.hist)
    /\ origin' = [base |-> e, data |-> e]
    /\ loading' = FALSE
    /\ abortControllerRef' = 0
    /\ UNCHANGED <<request, settings, cookie, injectedHeaders, microtasks, now>>

\* reader.read() yields the next chunk of the body on the wire
ReadWire(e) ==
    /\ execs[e].pc = "read"
    /\ execs[e].nread < Len(execs[e].res.chunks)
    /\ ReadChunk(e, DecodeChunk(execs[e].res.chunks, execs[e].nread + 1))

\* reader.read() yields done: the body on the wire is exhausted
DoneWire(e) ==
    /\ execs[e].pc = "read"
    /\ execs[e].nread = Len(execs[e].res.chunks)
    /\ ReadDone(e)

\* res.text() resolves with the whole body on the wire
TextWire(e) ==
    /\ execs[e].pc = "text"
    /\ TextResolve(e, Utf8Decode(Concat(execs[e].res.chunks)))

\* the clock advances
Tick ==
    /\ microtasks = <<>>
    /\ now < ClockBase + MaxTicks
    /\ now' = now + 1
    /\ UNCHANGED <<request, settings, cookie, response, loading, history,
                   injectedHeaders, abortControllerRef, execs, microtasks, origin>>

----------------------------------------------------------------------------
(* The engine.  Spec explores sends, stops and transport events with the   *)
(* smallest transport alphabet: one body-carrying response, the opaque     *)
(* response, one chunk value; the clock stands still.                      *)

Execs == 1..Len(execs)

CoreResponses ==
    { Res(200, <<"OK">>, <<"application/json", "; charset=utf-8">>, "basic", TRUE),
      Res(0, EmptyStr, EmptyStr, "opaque", FALSE) }

CoreChunks == { <<"1">> }

Init ==
    /\ request = INITIAL_REQUEST
    /\ settings \in {DEFAULT_SETTINGS, CloudSettings}
    /\ cookie = <<"c">>
    /\ response = <<>>
    /\ loading = FALSE
    /\ history = <<>>
    /\ injectedHeaders = <<>>
    /\ abortControllerRef = 0
    /\ execs = <<>>
    /\ microtasks = <<>>
    /\ now = ClockBase
    /\ origin = NoOrigin

Next ==
    \/ handleSend
    \/ handleStop
    \/ toggleStream
    \/ RunMicrotask
    \/ \E e \in Execs : SignResolve(e)
    \/ \E e \in Execs : SignReject(e)
    \/ \E e \in Execs : \E res \in CoreResponses : FetchResolve(e, res)
    \/ \E e \in Execs : TransportReject(e)
    \/ \E e \in Execs : \E chunk \in CoreChunks : ReadChunk(e, chunk)
    \/ \E e \in Execs : ReadDone(e)
    \/ \E e \in Execs : \E text \in CoreChunks : TextResolve(e, text)

Spec == Init /\ [][Next]_vars

\* the engine with the scheduling the event loop guarantees: the microtask queue
\* is drained, and the promise of hmacSha256 is settled one way or the other
\* (SignResolve and SignReject have the same guard, so a pending signature
\* cannot stay pending: it leaves by either of the two)
SpecFair ==
    /\ Spec
    /\ WF_vars(RunMicrotask)
    /\ WF_vars(\E e \in Execs : SignReject(e))

----------------------------------------------------------------------------
(* Request preparation on its own: handleSend, up to the fetch call, from  *)
(* every request and settings value of four input families.                *)

Methods == {"GET", "HEAD", "POST"}
BodyTypes == {"none", "json", "text", "file", "form-data", "x-www-form-urlencoded"}

RowLists(n, keys, values) ==
    [1..n -> { KV(<<"1">>, k, v, en) : k \in keys, v \in values, en \in BOOLEAN }]

PrecedenceKeys == { EmptyStr, <<"X">>, <<"x-appid">> }
ContentTypeKeys == { <<"X">>, <<"Content-Type">>, <<"content-type">>, <<"CONTENT-TYPE">> }
ParamKeys == { EmptyStr, <<"a">>, <<"&">> }
ParamValues == { EmptyStr, <<"=", "b">>, <<"%">> }

AuthSettings ==
    { [DEFAULT_SETTINGS EXCEPT !.cloudDocsMode = m, !.cloudDocsAppId = a,
                               !.cloudDocsSecureKey = k] :
        m \in BOOLEAN, a \in {EmptyStr, <<"a", "p">>}, k \in {EmptyStr, <<"k">>} }

InitEngineIdle ==
    /\ response = <<>>
    /\ loading = FALSE
    /\ history = <<>>
    /\ injectedHeaders = <<>>
    /\ abortControllerRef = 0
    /\ execs = <<>>
    /\ microtasks = <<>>
    /\ now = ClockBase
    /\ origin = NoOrigin

\* header precedence: global, injected and request headers on the same keys
InitPrecedence ==
    /\ \E m \in {"GET", "POST"}, bt \in {"none", "json"},
          hs \in RowLists(MaxHeaderRows, PrecedenceKeys, {<<"3">>}) :
          request = [INITIAL_REQUEST EXCEPT !.method = m, !.bodyType = bt, !.headers = hs]
    /\ \E st \in AuthSettings, gs \in RowLists(MaxGlobalRows, PrecedenceKeys, {<<"1">>}) :
          settings = [st EXCEPT !.globalHeaders = gs]
    /\ cookie \in {EmptyStr, <<"c">>}

\* every method and body type against the spellings of Content-Type
InitContentType ==
    /\ \E m \in Methods, bt \in BodyTypes, f \in {NoFile, <<"blob">>},
          hs \in RowLists(MaxHeaderRows, ContentTypeKeys, {<<"text/html">>}) :
          request = [INITIAL_REQUEST EXCEPT !.method = m, !.bodyType = bt, !.file = f,
                                            !.headers = hs]
    /\ \E gs \in RowLists(MaxGlobalRows, ContentTypeKeys, {<<"text/css">>}) :
          settings = [DEFAULT_SETTINGS EXCEPT !.globalHeaders = gs]
    /\ cookie = EmptyStr

\* the params list against urls with and without a query string
InitParams ==
    /\ \E m \in {"GET", "POST"}, u \in {<<"u">>, <<"u", "?", "q">>}, st \in BOOLEAN,
          ps \in RowLists(MaxParamRows, ParamKeys, ParamValues) :
          request = [INITIAL_REQUEST EXCEPT !.method = m, !.url = u, !.params = ps,
                                            !.stream = st]
    /\ settings = DEFAULT_SETTINGS
    /\ cookie = EmptyStr

\* one list in the params editor and in the url-encoded form editor, against
\* every method and body type
InitForms ==
    /\ \E m \in Methods, bt \in BodyTypes,
          fs \in RowLists(MaxParamRows, ParamKeys, ParamValues) :
          request = [INITIAL_REQUEST EXCEPT !.method = m, !.bodyType = bt,
                                            !.params = fs, !.bodyFormUrlEncoded = fs]
    /\ settings = DEFAULT_SETTINGS
    /\ cookie = EmptyStr

\* the multipart editor: text and file parts, with and without an attached file
FormRows ==
    { [id |-> <<"1">>, key |-> k, value |-> v, type |-> t, file |-> f, enabled |-> en] :
        k \in {EmptyStr, <<"f">>}, v \in {EmptyStr, <<"v">>}, t \in {"text", "file"},
        f \in {NoFile, <<"blob">>}, en \in BOOLEAN }

InitFormData ==
    /\ \E m \in {"HEAD", "POST"}, fs \in [1..MaxFormRows -> FormRows] :
          request = [INITIAL_REQUEST EXCEPT !.method = m, !.bodyType = "form-data",
                                            !.bodyFormData = fs]
    /\ settings = DEFAULT_SETTINGS
    /\ cookie = EmptyStr

InitBuild ==
    /\ InitEngineIdle
    /\ InitPrecedence \/ InitContentType \/ InitParams \/ InitForms \/ InitFormData

NextBuild ==
    \/ execs = <<>> /\ handleSend
    \/ \E e \in Execs : SignResolve(e)
    \/ \E e \in Execs : SignReject(e)

SpecBuild == InitBuild /\ [][NextBuild]_vars

----------------------------------------------------------------------------
(* One execution with the whole transport alphabet and a running clock *)

InitSingle ==
    /\ \E st \in BOOLEAN : request = [INITIAL_REQUEST EXCEPT !.stream = st]
    /\ settings \in {DEFAULT_SETTINGS, CloudSettings}
    /\ cookie \in {EmptyStr, <<"c">>}
    /\ InitEngineIdle

NextSingle ==
    \/ execs = <<>> /\ handleSend
    \/ handleStop
    \/ RunMicrotask
    \/ \E e \in Execs : SignResolve(e)
    \/ \E e \in Execs : SignReject(e)
    \/ \E e \in Execs : \E res \in Responses : FetchResolve(e, res)
    \/ \E e \in Execs : TransportReject(e)
    \/ \E e \in Execs : \E chunk \in Chunks : ReadChunk(e, chunk)
    \/ \E e \in Execs : ReadDone(e)
    \/ \E e \in Execs : \E text \in Texts(MaxChunks) : TextResolve(e, text)
    \/ Tick

SpecSingle == InitSingle /\ [][NextSingle]_vars

----------------------------------------------------------------------------
(* Cloud Docs Mode on its own: one send from every combination of the     *)
(* signing inputs, the clock running between the send and the signature   *)

AppIds == { EmptyStr, <<"a">>, <<"a", "p">> }
SecureKeys == { EmptyStr, <<"k">>, <<"k", "p">> }
Cookies == { EmptyStr, <<"c">>, <<"p", "c">> }
SignKeys == { <<"X">>, <<"x-sign">> }

InitSign ==
    /\ \E hs \in RowLists(MaxHeaderRows, SignKeys, {<<"3">>}) :
          request = [INITIAL_REQUEST EXCEPT !.headers = hs]
    /\ \E m \in BOOLEAN, a \in AppIds, k \in SecureKeys :
          settings = [DEFAULT_SETTINGS EXCEPT !.cloudDocsMode = m, !.cloudDocsAppId = a,
                                              !.cloudDocsSecureKey = k]
    /\ cookie \in Cookies
    /\ InitEngineIdle

NextSign ==
    \/ execs = <<>> /\ handleSend
    \/ \E e \in Execs : SignResolve(e)
    \/ \E e \in Execs : SignReject(e)
    \/ Tick

SpecSign == InitSign /\ [][NextSign]_vars

----------------------------------------------------------------------------
(* One execution against a body of bytes: the same bytes are drained in   *)
(* one piece (buffered) or read chunk by chunk (streaming)                *)

InitWire ==
    /\ \E st \in BOOLEAN : request = [INITIAL_REQUEST EXCEPT !.stream = st]
    /\ settings = DEFAULT_SETTINGS
    /\ cookie = EmptyStr
    /\ InitEngineIdle

NextWire ==
    \/ execs = <<>> /\ handleSend
    \/ \E e \in Execs : \E res \in WireResponses : FetchResolve(e, res)
    \/ \E e \in Execs : ReadWire(e)
    \/ \E e \in Execs : DoneWire(e)
    \/ \E e \in Execs : TextWire(e)

SpecWire == InitWire /\ [][NextWire]_vars

----------------------------------------------------------------------------
(* The request editor on its own: body-type switches between edits of the  *)
(* text body and of the attached file                                      *)

BodyTexts == { EmptyStr, <<"t">>, <<"{", "}">> }
Blobs == { NoFile, <<"blob">> }

InitEdit ==
    /\ \E bt \in BodyTypes, hs \in RowLists(MaxHeaderRows, ContentTypeKeys, {<<"text/html">>}),
          fs \in [1..1 -> {r \in FormRows : r.enabled /\ r.type = "file" /\ r.key # EmptyStr
                                                  /\ r.value = EmptyStr}] :
          request = [INITIAL_REQUEST EXCEPT !.bodyType = bt, !.headers = hs,
                                            !.bodyFormData = fs,
                                            !.bodyFormUrlEncoded = <<KV(<<"1">>, <<"a">>, <<"b">>, TRUE)>>]
    /\ settings = DEFAULT_SETTINGS
    /\ cookie = EmptyStr
    /\ InitEngineIdle

NextEdit ==
    \/ \E type \in BodyTypes : handleBodyTypeChange(type)
    \/ \E file \in Blobs : handleFileChange(file)
    \/ \E text \in BodyTexts : updateBodyContent(text)
    \/ Tick

SpecEdit == InitEdit /\ [][NextEdit]_vars

----------------------------------------------------------------------------
(* Body-type switches on their own, from header lists of several rows *)

MaxSwitchRows == 3

\* the rows of the header editor: other headers, enabled and disabled, spellings
\* of Content-Type, and the empty row
SwitchRows ==
    { KV(<<"1">>, <<"X">>, <<"v">>, TRUE),
      KV(<<"2">>, <<"Y">>, <<"v">>, FALSE),
      KV(<<"3">>, <<"CONTENT-TYPE">>, <<"text/html">>, TRUE),
      KV(<<"4">>, <<"content-type">>, <<"text/css">>, FALSE),
      EmptyRow }

InitSwitch ==
    /\ \E bt \in {"none", "json"}, hs \in [1..MaxSwitchRows -> SwitchRows] :
          request = [INITIAL_REQUEST EXCEPT !.bodyType = bt, !.headers = hs]
    /\ settings = DEFAULT_SETTINGS
    /\ cookie = EmptyStr
    /\ InitEngineIdle

NextSwitch ==
    \/ \E type \in BodyTypes : handleBodyTypeChange(type)
    \/ Tick

SpecSwitch == InitSwitch /\ [][NextSwitch]_vars

----------------------------------------------------------------------------
(* One execution of a request that carries blobs, edited while in flight  *)

InitFlight ==
    /\ \E bt \in {"json", "file", "form-data"}, f \in Blobs, st \in BOOLEAN,
          id \in {EmptyStr, <<"7">>},
          fs \in [1..1 -> {r \in FormRows : r.enabled /\ r.type = "file" /\ r.key # EmptyStr
                                                  /\ r.value = EmptyStr}] :
          request = [INITIAL_REQUEST EXCEPT !.method = "POST", !.bodyType = bt, !.file = f,
                                            !.stream = st, !.id = id, !.bodyFormData = fs]
    /\ settings \in {DEFAULT_SETTINGS, CloudSettings}
    /\ cookie = EmptyStr
    /\ InitEngineIdle

NextFlight ==
    \/ execs = <<>> /\ handleSend
    \/ \E file \in Blobs : handleFileChange(file)
    \/ \E text \in BodyTexts : updateBodyContent(text)
    \/ toggleStream
    \/ \E e \in Execs : SignResolve(e)
    \/ \E e \in Execs : SignReject(e)
    \/ \E e \in Execs : \E res \in CoreResponses : FetchResolve(e, res)
    \/ \E e \in Execs : \E chunk \in CoreChunks : ReadChunk(e, chunk)
    \/ \E e \in Execs : ReadDone(e)
    \/ \E e \in Execs : \E text \in CoreChunks : TextResolve(e, text)
    \/ Tick

SpecFlight == InitFlight /\ [][NextFlight]_vars

----------------------------------------------------------------------------
(* The history on its own: a saved history is loaded, requests are sent   *)
(* and recorded, and the list is edited while they are in flight          *)

\* an entry as addToHistory stored it at clock value t
SavedItem(t, pinned) ==
    [ id |-> NumToString(t), method |-> INITIAL_REQUEST.method, url |-> INITIAL_REQUEST.url,
      params |-> INITIAL_REQUEST.params, headers |-> INITIAL_REQUEST.headers,
      bodyType |-> INITIAL_REQUEST.bodyType, bodyContent |-> INITIAL_REQUEST.bodyContent,
      file |-> NoFile, bodyFormData |-> INITIAL_REQUEST.bodyFormData,
      bodyFormUrlEncoded |-> INITIAL_REQUEST.bodyFormUrlEncoded,
      stream |-> INITIAL_REQUEST.stream, timestamp |-> t, pinned |-> pinned ]

\* the list localStorage holds after n recordings, newest first, the entries at
\* the positions in P pinned
SavedHistory(n, P) == [i \in 1..n |-> SavedItem(ClockBase - i, i \in P)]

SavedLengths == { 0, 1, HistoryCap - 1, HistoryCap }

\* the entries the user clicks on: the newest and the oldest saved ones, and the
\* one recorded at the first clock value
ClickIds ==
    { NumToString(ClockBase), NumToString(ClockBase - 1),
      NumToString(ClockBase - (HistoryCap - 1)), NumToString(ClockBase - HistoryCap) }

InitHistory ==
    /\ request = INITIAL_REQUEST
    /\ settings = DEFAULT_SETTINGS
    /\ cookie = EmptyStr
    /\ \E n \in SavedLengths : \E P \in { {}, {1}, {n} } :
          history = SavedHistory(n, P \cap (1..n))
    /\ response = <<>>
    /\ loading = FALSE
    /\ injectedHeaders = <<>>
    /\ abortControllerRef = 0
    /\ execs = <<>>
    /\ microtasks = <<>>
    /\ now = ClockBase
    /\ origin = NoOrigin

NextHistory ==
    \/ Len(execs) <= 1 /\ ~loading /\ handleSend
    \/ clearHistory
    \/ \E id \in ClickIds : handleTogglePinHistory(id)
    \/ \E id \in ClickIds : handleDeleteHistory(id)
    \/ \E e \in Execs : \E res \in CoreResponses : FetchResolve(e, res)
    \/ \E e \in Execs : \E text \in CoreChunks : TextResolve(e, text)
    \/ Tick

SpecHistory == InitHistory /\ [][NextHistory]_vars

----------------------------------------------------------------------------
(* Properties of the executor (Spec) *)

\* execution e is in flight: suspended at an await, its controller not aborted
InFlight(e) == execs[e].pc \in {"sign", "fetch", "read", "text"} /\ execs[e].aborted = "no"

\* this step is a setResponse of execution e that changes the published response
PublishedBy(e) == response' # response /\ origin'.data = e

\* C1: in every reachable state at most one execution is neither aborted nor
\* settled (handleSend aborts the earlier execution before creating its controller)
C1_OneInFlight == Cardinality({e \in Execs : InFlight(e)}) <= 1

\* C2: once a later handleSend has begun while execution e was streaming, no
\* setResponse of e changes the published response
C2_SupersededSilent ==
    [][\A e \in Execs : execs[e].overtaken => ~PublishedBy(e)]_vars

\* C3: when handleStop cancels a streaming execution, the published response is
\* the snapshot holding exactly the chunks that execution has read, and no step
\* of a stopped execution changes the published response afterwards
C3_StopFreezesChunks ==
    [][ /\ \A e \in Execs :
              (execs[e].pc = "read" /\ execs[e].aborted = "no" /\ execs'[e].aborted = "stop")
              => (response' # <<>> /\ response'[1].data = execs[e].received)
        /\ \A e \in Execs : execs[e].aborted = "stop" => ~PublishedBy(e) ]_vars

IsErrorSnapshot(r) == r # <<>> /\ r[1].isError /\ r[1].status = 0

\* C4: an aborted execution never publishes the status 0 / isError snapshot; that
\* snapshot comes only from an execution whose transport rejected without an abort
C4_NoErrorFromAbort ==
    /\ [](IsErrorSnapshot(response) =>
            /\ origin.base \in Execs
            /\ execs[origin.base].pc = "failed"
            /\ execs[origin.base].aborted = "no")
    /\ [][\A e \in Execs :
            execs[e].aborted # "no" => ~(PublishedBy(e) /\ IsErrorSnapshot(response'))]_vars

\* both kinds of abort have happened and the aborted executions have run their catch
C4_Witness ==
    /\ \E e \in Execs : execs[e].pc = "cancelled" /\ execs[e].aborted = "stop"
    /\ \E e \in Execs : execs[e].pc = "cancelled" /\ execs[e].aborted = "send"

\* handleStop has nothing left to cancel: no handle, or a handle already aborted
StopIsNoop ==
    abortControllerRef = 0 \/ (execs[abortControllerRef].aborted # "no" /\ ~loading)

\* C5: handleStop with nothing left to cancel changes nothing, and after a
\* handleStop (and the catch it triggers) a second handleStop has nothing to cancel
C5_StopIdempotent ==
    [][ /\ (handleStop /\ (abortControllerRef = 0 \/ execs[abortControllerRef].aborted # "no"))
              => UNCHANGED <<response, loading, abortControllerRef, history, execs, microtasks>>
        /\ (handleStop /\ microtasks' = <<>>) => StopIsNoop'
        /\ (RunMicrotask /\ execs[Head(microtasks)].aborted = "stop") => StopIsNoop' ]_vars

\* an execution was stopped, has returned, and there is a response and a history to keep
C5_Witness ==
    /\ abortControllerRef = 0
    /\ \E e \in Execs : execs[e].pc = "cancelled" /\ execs[e].aborted = "stop"
    /\ response # <<>>
    /\ history # <<>>

----------------------------------------------------------------------------
(* Properties of the request preparation (SpecBuild) *)

\* the single execution has called fetch
Sent == execs # <<>> /\ execs[1].pc = "fetch"
Wire == execs[1].call
SentReq == execs[1].req
SentSet == execs[1].set

HeaderNames ==
    PrecedenceKeys \cup ContentTypeKeys \cup
    { <<"Accept">>, <<"x-request-ts">>, <<"x-nonce">>, <<"x-auth-type">>,
      <<"x-auth-value">>, <<"x-sign">> }

\* an optional value: <<>> or <<v>>
HasRow(rows, k) == k # EmptyStr /\ \E i \in 1..Len(rows) : rows[i].enabled /\ rows[i].key = k

LastRowValue(rows, k) ==
    LET I == { i \in 1..Len(rows) : rows[i].enabled /\ rows[i].key = k }
    IN  rows[CHOOSE i \in I : \A j \in I : j <= i].value

WireHeader(k) == IF HHas(Wire.headers, k) THEN <<HGet(Wire.headers, k)>> ELSE <<>>

\* the value precedence assigns to header k: request over injected over global
Resolved(k) ==
    IF HasRow(SentReq.headers, k) THEN <<LastRowValue(SentReq.headers, k)>>
    ELSE IF injectedHeaders # <<>> /\ HHas(injectedHeaders[1], k)
         THEN <<HGet(injectedHeaders[1], k)>>
    ELSE IF HasRow(SentSet.globalHeaders, k)
         THEN <<LastRowValue(SentSet.globalHeaders, k)>>
    ELSE <<>>

\* the header names the multipart patch deletes
MultipartPatched(k) ==
    /\ SentReq.method \notin {"GET", "HEAD"}
    /\ SentReq.bodyType = "form-data"
    /\ k \in { <<"Content-Type">>, <<"content-type">> }

\* C6: on the wire a header has the value of the highest-precedence source that
\* holds it (request over injected auth over global), the multipart removal of
\* Content-Type apart
C6_HeaderPrecedence ==
    Sent => \A k \in HeaderNames : MultipartPatched(k) \/ WireHeader(k) = Resolved(k)

\* x-appid is set by the global headers, by the injection and by the request
C6_Witness ==
    /\ Sent
    /\ injectedHeaders # <<>>
    /\ HasRow(SentSet.globalHeaders, <<"x-appid">>)
    /\ HasRow(SentReq.headers, <<"x-appid">>)
    /\ WireHeader(<<"x-appid">>) = << <<"3">> >>

IsContentType(k) == ToLowerCase(k) = <<"content-type">>

\* C7: with a json / text body on a body-carrying method the wire carries
\* Content-Type application/json / text/plain and no other Content-Type value,
\* whatever the header lists hold, and the body is the text content
C7_JsonTextContentType ==
    (Sent /\ SentReq.method \notin {"GET", "HEAD"} /\ SentReq.bodyType \in {"json", "text"})
    => /\ \E i \in 1..Len(Wire.headers) : IsContentType(Wire.headers[i].key)
       /\ \A i \in 1..Len(Wire.headers) :
             IsContentType(Wire.headers[i].key) =>
                Wire.headers[i].value =
                    (IF SentReq.bodyType = "json" THEN <<"application/json">>
                     ELSE <<"text/plain">>)
       /\ Wire.body.kind = "string" /\ Wire.body.text = SentReq.bodyContent

\* C8: with a multipart body on a body-carrying method the wire carries no header
\* named Content-Type in any spelling
C8_MultipartNoContentType ==
    (Sent /\ SentReq.method \notin {"GET", "HEAD"} /\ SentReq.bodyType = "form-data")
    => \A i \in 1..Len(Wire.headers) : ~IsContentType(Wire.headers[i].key)

\* C9: for GET and HEAD the body handed to fetch is undefined, every header is the
\* one precedence resolves (no body-type patch), and handleSend leaves the request,
\* its body fields included, as it was
C9_GetHeadNoBody ==
    /\ []((Sent /\ SentReq.method \in {"GET", "HEAD"}) =>
            /\ Wire.body.kind = "undefined"
            /\ \A k \in HeaderNames : WireHeader(k) = Resolved(k))
    /\ [][handleSend =>
            /\ request'.bodyType = request.bodyType
            /\ request'.bodyContent = request.bodyContent
            /\ request'.file = request.file
            /\ request'.bodyFormData = request.bodyFormData
            /\ request'.bodyFormUrlEncoded = request.bodyFormUrlEncoded]_vars

\* a HEAD request with a multipart body, a file and a Content-Type header
C9_Witness ==
    /\ Sent
    /\ SentReq.method = "HEAD"
    /\ SentReq.bodyType = "form-data"
    /\ SentReq.file # NoFile
    /\ WireHeader(<<"Content-Type">>) # <<>>
    /\ Wire.body.kind = "undefined"

\* the entries a list contributes: enabled, key not empty, in list order
RECURSIVE Qualifying(_)
Qualifying(rows) ==
    IF rows = <<>> THEN <<>>
    ELSE (IF Head(rows).enabled = TRUE /\ Len(Head(rows).key) > 0
          THEN << <<Head(rows).key, Head(rows).value>> >>
          ELSE <<>>) \o Qualifying(Tail(rows))

\* s.split(sep)
RECURSIVE Split(_, _)
Split(s, sep) ==
    IF \A i \in 1..Len(s) : s[i] # sep THEN <<s>>
    ELSE LET i == CHOOSE i \in 1..Len(s) : s[i] = sep /\ \A j \in 1..(i - 1) : s[j] # sep
         IN  <<SubSeq(s, 1, i - 1)>> \o Split(SubSeq(s, i + 1, Len(s)), sep)

\* decodeURIComponent on the escapes EncTok produces
RECURSIVE PercentDecode(_)
PercentDecode(s) ==
    IF s = <<>> THEN <<>>
    ELSE IF s[1] = "%" /\ Len(s) >= 3
         THEN << CASE SubSeq(s, 2, 3) = <<"2", "6">> -> "&"
                   [] SubSeq(s, 2, 3) = <<"3", "D">> -> "="
                   [] SubSeq(s, 2, 3) = <<"3", "F">> -> "?"
                   [] SubSeq(s, 2, 3) = <<"2", "5">> -> "%"
                   [] OTHER -> "invalid" >> \o PercentDecode(SubSeq(s, 4, Len(s)))
    ELSE <<s[1]>> \o PercentDecode(Tail(s))

\* what a server reads back from a query string
ParseQuery(qs) ==
    IF qs = <<>> THEN <<>>
    ELSE LET segs == Split(qs, "&")
         IN  [i \in 1..Len(segs) |->
                LET kv == Split(segs[i], "=")
                IN  << PercentDecode(kv[1]),
                       PercentDecode(Join(SubSeq(kv, 2, Len(kv)), <<"=">>)) >>]

BodyPairs(body) == [i \in 1..Len(body.parts) |-> <<body.parts[i].name, body.parts[i].value>>]

\* C10: the query string and the url-encoded body hold exactly the enabled entries
\* with a non-empty key, once each, in list order
C10_ExactlyEnabledEntries ==
    Sent =>
       /\ ParseQuery(QueryString(SentReq)) = Qualifying(SentReq.params)
       /\ Qualifying(SentReq.params) # <<>> =>
             Wire.url = SplitFirst(SentReq.url, "?") \o <<"?">> \o QueryString(SentReq)
       /\ (SentReq.method \notin {"GET", "HEAD"}
           /\ SentReq.bodyType = "x-www-form-urlencoded") =>
             /\ Wire.body.kind = "urlencoded"
             /\ BodyPairs(Wire.body) = Qualifying(SentReq.bodyFormUrlEncoded)

\* a url-encoded POST whose list holds a disabled entry with a key and an enabled one
C10_Witness ==
    /\ Sent
    /\ SentReq.method = "POST"
    /\ SentReq.bodyType = "x-www-form-urlencoded"
    /\ \E i \in 1..Len(SentReq.params) :
          ~SentReq.params[i].enabled /\ SentReq.params[i].key # EmptyStr
    /\ Len(Qualifying(SentReq.params)) = 1
    /\ Len(Wire.body.parts) = 1
    /\ SentReq.bodyFormUrlEncoded = SentReq.params

\* the fields a multipart list is to contribute: the enabled parts with a key, in
\* list order, a text part as a text field, a file part as a file attachment, a
\* file part without a file as nothing
RECURSIVE ExpectedParts(_)
ExpectedParts(rows) ==
    IF rows = <<>> THEN <<>>
    ELSE LET item == Head(rows)
         IN  (IF ~(item.enabled /\ item.key # EmptyStr) THEN <<>>
              ELSE IF item.type = "text"
                   THEN <<[name |-> item.key, kind |-> "text", value |-> item.value]>>
              ELSE IF item.file # NoFile
                   THEN <<[name |-> item.key, kind |-> "file", value |-> item.file]>>
              ELSE <<>>) \o ExpectedParts(Tail(rows))

\* C11: the multipart body holds exactly the enabled parts with a non-empty key, in
\* list order, text parts as text fields and file parts as file attachments; a file
\* part with no file attached contributes no field
C11_MultipartParts ==
    (Sent /\ SentReq.method \notin {"GET", "HEAD"} /\ SentReq.bodyType = "form-data")
    => /\ Wire.body.kind = "formdata"
       /\ Wire.body.parts = ExpectedParts(SentReq.bodyFormData)

\* C12: the body handed to fetch comes from the selected body variant only: the
\* attached blob itself for the file type, unwrapped and with no header patch, and
\* never the text content when the file type has no file attached
C12_SelectedVariantOnly ==
    (Sent /\ SentReq.method \notin {"GET", "HEAD"}) =>
       /\ SentReq.bodyType \in {"json", "text"} =>
             Wire.body.kind = "string" /\ Wire.body.text = SentReq.bodyContent
       /\ SentReq.bodyType = "form-data" => Wire.body.kind = "formdata"
       /\ SentReq.bodyType = "x-www-form-urlencoded" => Wire.body.kind = "urlencoded"
       /\ SentReq.bodyType = "none" => Wire.body.kind = "undefined"
       /\ SentReq.bodyType = "file" =>
             /\ Wire.body.kind \in {"file", "undefined"}
             /\ Wire.body.kind = "file" =>
                   /\ SentReq.file # NoFile
                   /\ Wire.body.text = SentReq.file
                   /\ \A k \in HeaderNames : WireHeader(k) = Resolved(k)
             /\ ~(Wire.body.kind = "string" /\ Wire.body.text = SentReq.bodyContent)

----------------------------------------------------------------------------
(* Properties of the request editor (SpecEdit) *)

\* C13: a body-type switch leaves bodyContent, file, bodyFormData,
\* bodyFormUrlEncoded, method, url and params as they were, whatever switches and
\* edits came before; only bodyType and the header list change
C13_SwitchKeepsVariants ==
    [][(\E type \in BodyTypes : handleBodyTypeChange(type)) =>
          /\ request'.bodyContent = request.bodyContent
          /\ request'.file = request.file
          /\ request'.bodyFormData = request.bodyFormData
          /\ request'.bodyFormUrlEncoded = request.bodyFormUrlEncoded
          /\ request'.method = request.method
          /\ request'.url = request.url
          /\ request'.params = request.params]_vars

\* after a later switch (the Content-Type row carries a later clock value) the text
\* editor is selected and the text, the file and the form lists are all still held
C13_Witness ==
    /\ request.bodyType = "text"
    /\ request.headers[1].id = NumToString(ClockBase + 1)
    /\ request.bodyContent = <<"t">>
    /\ request.file = <<"blob">>
    /\ request.bodyFormData[1].file = <<"blob">>
    /\ request.bodyFormUrlEncoded # <<>>

----------------------------------------------------------------------------
(* Properties of Cloud Docs Mode (SpecSign) *)

AuthKeys ==
    { <<"x-appid">>, <<"x-request-ts">>, <<"x-nonce">>, <<"x-auth-type">>,
      <<"x-auth-value">>, <<"x-sign">> }

Injected == injectedHeaders[1]

\* the six headers are on the wire, with the injected value unless the request's
\* own header list sets the same name
AuthOnWire ==
    /\ injectedHeaders # <<>>
    /\ \A k \in AuthKeys :
          /\ HHas(Injected, k)
          /\ HHas(Wire.headers, k)
          /\ ~HasRow(SentReq.headers, k) => HGet(Wire.headers, k) = HGet(Injected, k)

\* no auth header is on the wire beyond what the header lists themselves hold
NoAuthOnWire ==
    /\ injectedHeaders = <<>>
    /\ \A k \in AuthKeys :
          HHas(Wire.headers, k) => HasRow(SentReq.headers, k) \/ HasRow(SentSet.globalHeaders, k)

\* the values of the six injected headers
SixHeaders ==
    LET timestamp == NumToString(execs[1].startTime)
        nonce == SubSeq(timestamp, Len(timestamp) - 5, Len(timestamp))
    IN  /\ HGet(Injected, <<"x-appid">>) = SentSet.cloudDocsAppId
        /\ HGet(Injected, <<"x-request-ts">>) = timestamp
        /\ HGet(Injected, <<"x-nonce">>) = nonce
        /\ Len(nonce) = 6
        /\ HGet(Injected, <<"x-auth-type">>) = <<"1">>
        /\ HGet(Injected, <<"x-auth-value">>) = cookie
        /\ HGet(Injected, <<"x-sign">>) =
              hmacSha256(SentSet.cloudDocsSecureKey,
                         SentSet.cloudDocsAppId \o nonce \o timestamp \o cookie)

AuthEnabled ==
    /\ SentSet.cloudDocsMode
    /\ SentSet.cloudDocsAppId # EmptyStr
    /\ SentSet.cloudDocsSecureKey # EmptyStr

\* C14 as stated: the auth headers are injected into a send if and only if auth is
\* enabled and appId and secretKey are both non-empty, and when injected the six
\* headers have the stated values
C14_InjectedIffEnabled ==
    Sent => IF AuthEnabled THEN AuthOnWire /\ SixHeaders ELSE NoAuthOnWire

\* C14 amended: the auth headers are injected if and only if auth is enabled, appId
\* and secretKey are both non-empty and the signature computation succeeds; when
\* injected the six headers have the stated values, and when the computation fails
\* the request goes out without them
C14_InjectedIffSigned ==
    /\ [](Sent => IF injectedHeaders # <<>>
                  THEN AuthEnabled /\ AuthOnWire /\ SixHeaders
                  ELSE NoAuthOnWire)
    /\ [][ /\ (handleSend /\ CloudDocsOn(settings)) => execs'[1].pc = "sign"
           /\ (handleSend /\ ~CloudDocsOn(settings)) => (Sent' /\ NoAuthOnWire')
           /\ \A e \in Execs : SignResolve(e) => (Sent' /\ AuthOnWire')
           /\ \A e \in Execs : SignReject(e) => (Sent' /\ NoAuthOnWire') ]_vars

\* a signed send whose timestamp is older than the clock and whose request list
\* sets x-sign itself
C14_Witness ==
    /\ Sent
    /\ AuthOnWire
    /\ cookie # EmptyStr
    /\ now > execs[1].startTime
    /\ HasRow(SentReq.headers, <<"x-sign">>)
    /\ HGet(Wire.headers, <<"x-nonce">>) = SubSeq(NumToString(ClockBase), 2, 7)

\* the inputs of one signature computation
SignInputs ==
    [ appId : AppIds \ {EmptyStr},
      secretKey : SecureKeys \ {EmptyStr},
      authValue : Cookies,
      timestamp : { NumToString(ClockBase + i) : i \in 0..(MaxTicks + 1) },
      nonce : { SliceLast(NumToString(ClockBase + i), 6) : i \in 0..(MaxTicks + 1) } ]

\* the inputs of the computation whose result was injected
SignedInputs ==
    [ appId |-> SentSet.cloudDocsAppId,
      secretKey |-> SentSet.cloudDocsSecureKey,
      authValue |-> HGet(Injected, <<"x-auth-value">>),
      timestamp |-> HGet(Injected, <<"x-request-ts">>),
      nonce |-> HGet(Injected, <<"x-nonce">>) ]

\* the signature of inputs in
SignatureOf(in) ==
    hmacSha256(in.secretKey, signStr(in.appId, in.nonce, in.timestamp, in.authValue))

Differing(in1, in2) == { f \in DOMAIN in1 : in1[f] # in2[f] }

\* C15: the injected x-sign is the signature of (appId, secretKey, authValue,
\* timestamp, nonce): a computation on the same five inputs gives the same x-sign,
\* and a computation on inputs differing in exactly one of the five gives another
C15_SignatureDetermined ==
    (Sent /\ injectedHeaders # <<>>) =>
        \A in \in SignInputs :
            /\ Differing(in, SignedInputs) = {} =>
                  SignatureOf(in) = HGet(Injected, <<"x-sign">>)
            /\ Cardinality(Differing(in, SignedInputs)) = 1 =>
                  SignatureOf(in) # HGet(Injected, <<"x-sign">>)

\* a signed send with a credential, made on the second clock value
C15_Witness ==
    /\ Sent
    /\ injectedHeaders # <<>>
    /\ SignedInputs \in SignInputs
    /\ SignedInputs.authValue = <<"p", "c">>
    /\ SignedInputs.appId = <<"a">>
    /\ SignedInputs.timestamp = NumToString(ClockBase + 1)

----------------------------------------------------------------------------
(* Properties of the response collector *)

Returned == {"settled", "failed", "cancelled"}

\* execution e calls setResponse with a snapshot in this step
Settles(e) == execs[e].pc \in Pending /\ execs'[e].pc \in {"settled", "failed"}

\* an execution that has returned takes no further step and publishes nothing
ReturnedIsFinal ==
    \A e \in Execs : execs[e].pc \in Returned => (execs'[e] = execs[e] /\ ~PublishedBy(e))

\* C16: a transport rejection that is not an abort publishes the error snapshot
\* (status 0, isError, a message as body) once, as the last act of the execution:
\* loading is false, no execution is started in its place, and the failed execution
\* takes no further step
C16_NetworkFailureSettles ==
    [][ /\ \A e \in Execs :
              (execs[e].pc \in Pending /\ execs'[e].pc = "failed") =>
                 /\ execs[e].aborted = "no"
                 /\ IsErrorSnapshot(response')
                 /\ response'[1].data # EmptyStr
                 /\ origin' = [base |-> e, data |-> e]
                 /\ ~loading'
                 /\ Len(execs') = Len(execs)
                 /\ history' = history
        /\ \A e \in Execs : TransportReject(e) => execs'[e].pc = "failed"
        /\ \A e \in Execs :
              (PublishedBy(e) /\ IsErrorSnapshot(response')) => execs[e].pc \in AwaitsTransport
        /\ ReturnedIsFinal ]_vars

\* an execution has failed on the network and its error snapshot is on display
C16_Witness ==
    /\ \E e \in Execs : execs[e].pc = "failed" /\ origin.base = e
    /\ IsErrorSnapshot(response)
    /\ ~loading

IsOpaqueSnapshot(r) ==
    /\ r # <<>>
    /\ r[1].status = 0
    /\ r[1].contentType = <<"opaque/unknown">>
    /\ ~r[1].isError
    /\ r[1].data # EmptyStr
    /\ ~r[1].parsed

\* C17: an opaque transport result is settled at once with the one snapshot
\* status 0, contentType opaque/unknown, isError false and a text body; loading is
\* false, the body is never read and no error snapshot is published for it
C17_OpaqueSettles ==
    [][ /\ \A e \in Execs : \A res \in Responses :
              (res.type = "opaque" /\ FetchResolve(e, res)) =>
                 /\ execs'[e].pc = "settled"
                 /\ IsOpaqueSnapshot(response')
                 /\ origin' = [base |-> e, data |-> e]
                 /\ ~loading'
        /\ \A e \in Execs : \A res \in Responses :
              (res.type # "opaque" /\ FetchResolve(e, res)) =>
                 /\ execs'[e].pc \in {"read", "text"}
                 /\ PublishedBy(e) => ~IsOpaqueSnapshot(response')
        /\ ReturnedIsFinal ]_vars

\* an opaque result has been settled and recorded
C17_Witness ==
    /\ \E e \in Execs : execs[e].pc = "settled" /\ origin.base = e
    /\ IsOpaqueSnapshot(response)
    /\ ~loading
    /\ history # <<>>

\* C18: a buffered execution that is not cancelled publishes in exactly one step,
\* the step in which it settles or fails: nothing is published before and nothing
\* after
C18_BufferedPublishesOnce ==
    [][ /\ \A e \in Execs :
              (execs[e].pc \in Pending /\ ~execs[e].req.stream) =>
                 /\ execs'[e].pc # "read"
                 /\ PublishedBy(e) => Settles(e)
                 /\ Settles(e) => (response' # <<>> /\ origin' = [base |-> e, data |-> e])
        /\ ReturnedIsFinal ]_vars

\* a buffered execution has settled with a body and its snapshot is on display
C18_Witness ==
    /\ \E e \in Execs : execs[e].pc = "settled" /\ origin = [base |-> e, data |-> e]
    /\ response # <<>>
    /\ response[1].status = 200
    /\ response[1].data # EmptyStr
    /\ ~request.stream

\* C19: a streaming execution publishes the header snapshot (status and headers
\* set, empty body) when the headers arrive, then after each chunk one snapshot
\* whose body is all chunks received so far, as raw text, and nothing at the end
\* of the stream
C19_StreamingSnapshots ==
    [][\A e \in Execs :
          /\ (execs[e].pc = "fetch" /\ execs'[e].pc = "read") =>
                /\ response' # <<>>
                /\ response'[1].data = EmptyStr
                /\ response'[1].status = execs'[e].res.status
                /\ response'[1].headers = ResHeaders(execs'[e].res)
                /\ origin' = [base |-> e, data |-> e]
          /\ (execs[e].pc = "read" /\ execs'[e].pc = "read"
               /\ execs'[e].nread = execs[e].nread + 1) =>
                /\ response' # <<>>
                /\ response'[1].data = execs'[e].received
                /\ ~response'[1].parsed
                /\ response'[1].status = execs[e].res.status
                /\ origin' = [base |-> e, data |-> e]
          /\ (execs[e].pc = "read" /\ execs'[e].pc = "settled") =>
                (response' = response /\ origin' = origin)
          /\ (execs[e].pc = "read" /\ execs'[e].pc # "failed" /\ PublishedBy(e)) =>
                execs'[e].nread = execs[e].nread + 1]_vars

\* C20: with a content-type that is not JSON, the body of the last snapshot of a
\* streaming execution is the text the buffered mode makes of the same bytes,
\* however the bytes are split into chunks
C20_BufferedStreamingEqual ==
    [][\A e \in Execs :
          (execs[e].pc \in {"read", "text"} /\ execs'[e].pc = "settled"
           /\ ~IncludesJson(execs[e].res.contentType)) =>
             /\ response' # <<>>
             /\ response'[1].data = Utf8Decode(Concat(execs[e].res.chunks))]_vars

----------------------------------------------------------------------------
(* Properties of the recording of a request (SpecFlight) *)

\* execution e records its request in this step
Records(e) == execs[e].pc \in Pending /\ execs'[e].pc = "settled"

\* item holds the fields of req other than the id, with the blobs removed
RecordedWithoutBlobs(item, req) ==
    /\ item.file = NoFile
    /\ Len(item.bodyFormData) = Len(req.bodyFormData)
    /\ \A i \in 1..Len(req.bodyFormData) :
          /\ item.bodyFormData[i].file = NoFile
          /\ item.bodyFormData[i].id = req.bodyFormData[i].id
          /\ item.bodyFormData[i].key = req.bodyFormData[i].key
          /\ item.bodyFormData[i].value = req.bodyFormData[i].value
          /\ item.bodyFormData[i].type = req.bodyFormData[i].type
          /\ item.bodyFormData[i].enabled = req.bodyFormData[i].enabled
    /\ item.method = req.method
    /\ item.url = req.url
    /\ item.params = req.params
    /\ item.headers = req.headers
    /\ item.bodyType = req.bodyType
    /\ item.bodyContent = req.bodyContent
    /\ item.bodyFormUrlEncoded = req.bodyFormUrlEncoded
    /\ item.stream = req.stream

\* C21 as stated: the entry recorded for a request has no blobs and holds every
\* other field of the request as sent, the request id included
C21_HistoryKeepsAllButBlobs ==
    [][\A e \in Execs :
          Records(e) =>
             /\ history' # <<>>
             /\ RecordedWithoutBlobs(history'[1], execs[e].req)
             /\ history'[1].id = execs[e].req.id]_vars

\* C21 amended: the entry recorded for a request has no blobs and holds every
\* other field of the request as sent except the id, which is the clock value at
\* the time of recording; it is unpinned and stamped with the same clock value
C21_HistoryKeepsAllButBlobsAndId ==
    [][\A e \in Execs :
          Records(e) =>
             /\ history' # <<>>
             /\ RecordedWithoutBlobs(history'[1], execs[e].req)
             /\ history'[1].id = NumToString(now)
             /\ history'[1].timestamp = now
             /\ ~history'[1].pinned]_vars

\* a request with an attached file, a file in a multipart part and an id of its
\* own has been recorded
C21_Witness ==
    /\ history # <<>>
    /\ execs # <<>> /\ execs[1].pc = "settled"
    /\ history[1].bodyFormData[1].key # EmptyStr
    /\ history[1].file = NoFile
    /\ history[1].id # <<"7">>
    /\ request.id = <<"7">>
    /\ request.file # NoFile
    /\ request.bodyFormData[1].file # NoFile

----------------------------------------------------------------------------
(* Further properties of the executor (Spec) *)

\* C22: the status and headers of the published response and its body come from
\* one and the same execution: no chunk update of one execution is applied to a
\* snapshot published by another
C22_NoMergedSnapshot ==
    /\ origin.base = origin.data
    /\ response = <<>> => origin = NoOrigin

\* the second of two sends was stopped without having published anything, the
\* first one having run to its end before
StoppedBeforeHeaders ==
    /\ Len(execs) = 2
    /\ execs[1].pc \in {"settled", "failed"}
    /\ execs[2].pc = "cancelled"
    /\ execs[2].aborted = "stop"
    /\ origin.base # 2

----------------------------------------------------------------------------
(* Termination (SpecFair) *)

AllReturned == \A e \in Execs : execs[e].pc \in Returned

\* C24: an execution whose controller was aborted returns (cancelled); a transport
\* result that ends the exchange (opaque result, end of stream, drained body,
\* rejection) makes it return in the same step; handleStop takes effect in each
\* of the sending, streaming and buffering phases; and when every execution has
\* returned, loading is false and the handle is null
C24_ExecutionsTerminate ==
    /\ \A e \in 1..MaxSends :
          (e \in Execs /\ execs[e].aborted # "no") ~>
             (e \in Execs /\ execs[e].pc = "cancelled")
    /\ [](AllReturned => (~loading /\ abortControllerRef = 0 /\ microtasks = <<>>))
    /\ [][\A e \in Execs :
            /\ ReadDone(e) => execs'[e].pc = "settled"
            /\ TransportReject(e) => execs'[e].pc = "failed"
            /\ (\E text \in CoreChunks : TextResolve(e, text)) => execs'[e].pc = "settled"
            /\ (handleStop /\ abortControllerRef = e /\ execs[e].aborted = "no") =>
                  /\ execs'[e].aborted = "stop"
                  /\ execs[e].pc \in AwaitsTransport =>
                        (execs'[e].pc = "rejected" /\ microtasks' = <<e>>)
                  /\ execs[e].pc = "sign" => execs'[e].pc = "sign"]_vars

\* three executions have returned, one stopped, one superseded, one answered
C24_Witness ==
    /\ Len(execs) = 3
    /\ AllReturned
    /\ \E e \in Execs : execs[e].pc = "cancelled" /\ execs[e].aborted = "stop"
    /\ \E e \in Execs : execs[e].pc = "cancelled" /\ execs[e].aborted = "send"
    /\ \E e \in Execs : execs[e].pc = "settled"

----------------------------------------------------------------------------
(* Order of the publications of one execution (SpecSingle) *)

\* the first execution replaces a snapshot it published earlier
Republishes == response # <<>> /\ response' # <<>> /\ response' # response

----------------------------------------------------------------------------
(* The request an execution works on (SpecFlight) *)

\* execution e makes its fetch call in this step
Calls(e) == execs[e].pc = "sign" /\ execs'[e].pc = "fetch"

\* C26: the request an execution holds is the request at the handleSend call and
\* does not change while the execution is pending; the fetch call made after the
\* signature has its method, url, body and duplex from that request, and the entry
\* recorded at completion holds its fields, whatever was edited in between
C26_RequestAsOfCall ==
    [][/\ handleSend => execs'[Len(execs')].req = request
       /\ \A e \in Execs :
             /\ (execs[e].pc \in Pending /\ execs'[e].pc \in Pending) =>
                   execs'[e].req = execs[e].req
             /\ Calls(e) =>
                   LET req == execs[e].req
                       call == execs'[e].call
                   IN  /\ call.method = req.method
                       /\ call.url = FinalUrl(req)
                       /\ call.body = PrepareBody(req)
                       /\ req.bodyType = "json" => call.body.text = req.bodyContent
                       /\ (req.bodyType = "file" /\ req.file # NoFile) =>
                             call.body.text = req.file
                       /\ call.duplex = "half" <=> (req.stream \/ req.bodyType = "file")
             /\ Records(e) =>
                   /\ history' # <<>>
                   /\ RecordedWithoutBlobs(history'[1], execs[e].req)]_vars

\* the body text and the stream flag were edited before the signature was ready,
\* and the fetch call has been made with the text of the handleSend call
C26_Witness ==
    /\ execs # <<>>
    /\ execs[1].pc = "fetch"
    /\ execs[1].set.cloudDocsMode
    /\ execs[1].call.body.kind = "string"
    /\ execs[1].call.body.text # request.bodyContent
    /\ execs[1].req.stream # request.stream
    /\ execs[1].startTime < now

----------------------------------------------------------------------------
(* The auth header set on display (Spec) *)

\* C27: the set held in injectedHeaders is the set of the latest send: once that
\* send has made its fetch call, each of the six headers it exposes is on the wire
\* of that call with the exposed value
C27_ExposedSetIsOfLatestSend ==
    \A e \in Execs :
        (e = Len(execs) /\ execs[e].pc = "fetch" /\ injectedHeaders # <<>>) =>
            \A k \in AuthKeys :
                /\ HHas(execs[e].call.headers, k)
                /\ HGet(execs[e].call.headers, k) = HGet(Injected, k)

----------------------------------------------------------------------------
(* A failed signature (SpecBuild) *)

\* the single execution has called fetch after its signature computation failed
SignFailed == Sent /\ AuthEnabled /\ injectedHeaders = <<>>

\* the value the header lists alone give header k: request over global
ListedValue(k) ==
    IF HasRow(SentReq.headers, k) THEN <<LastRowValue(SentReq.headers, k)>>
    ELSE IF HasRow(SentSet.globalHeaders, k) THEN <<LastRowValue(SentSet.globalHeaders, k)>>
    ELSE <<>>

\* C28: when the signature computation fails the fetch call is made all the same,
\* with the headers of the global and request lists only (an auth header name is
\* on the wire only if one of the lists holds it), with the method and body of the
\* request; nothing is published, and the execution stays in flight
C28_SignFailureStillSends ==
    /\ [](SignFailed =>
            /\ \A k \in HeaderNames : MultipartPatched(k) \/ WireHeader(k) = ListedValue(k)
            /\ \A k \in AuthKeys : HHas(Wire.headers, k) => ListedValue(k) # <<>>
            /\ Wire.method = SentReq.method
            /\ (SentReq.method = "POST" /\ SentReq.bodyType = "json") =>
                  (Wire.body.kind = "string" /\ Wire.body.text = SentReq.bodyContent)
            /\ response = <<>>
            /\ loading
            /\ abortControllerRef = 1
            /\ execs[1].aborted = "no")
    /\ [][\A e \in Execs : SignReject(e) => (SignFailed' /\ response' = response)]_vars

\* a POST with a json body went out after a failed signature, x-appid coming from
\* the global headers
C28_Witness ==
    /\ SignFailed
    /\ SentReq.method = "POST"
    /\ Wire.body.kind = "string"
    /\ WireHeader(<<"x-appid">>) = << <<"1">> >>
    /\ ~HHas(Wire.headers, <<"x-sign">>)

----------------------------------------------------------------------------
(* The buffered body (SpecSingle) *)

\* text is a JSON document: over the tokens of the model, a number literal
IsJsonText(text) == text # EmptyStr /\ \A i \in 1..Len(text) : text[i] = "1"

\* the content type announces JSON
AnnouncesJson(res) == \E i \in 1..Len(res.contentType) : res.contentType[i] = "application/json"

\* C29: the buffered snapshot holds a parsed body exactly when the content type
\* contains application/json and the text parses; otherwise the body is the raw
\* text; in both cases the status is the HTTP status, isError is its not being
\* 2xx, and the execution settles and records the request
C29_BufferedJsonParse ==
    [][\A e \in Execs : \A text \in Texts(MaxChunks) :
          TextResolve(e, text) =>
             LET res == execs[e].res
                 r == response'[1]
             IN  /\ response' # <<>>
                 /\ r.parsed <=> (AnnouncesJson(res) /\ IsJsonText(text))
                 /\ r.data = text
                 /\ r.status = res.status
                 /\ r.isError <=> res.status \notin 200..299
                 /\ ~IsErrorSnapshot(response')
                 /\ execs'[e].pc = "settled"
                 /\ Len(history') = Len(history) + 1]_vars

\* a body announced as JSON that does not parse is on display as raw text under
\* a 200 status
C29_Witness ==
    /\ execs # <<>>
    /\ execs[1].pc = "settled"
    /\ response # <<>>
    /\ response[1].status = 200
    /\ AnnouncesJson(response[1])
    /\ ~IsJsonText(response[1].data)
    /\ response[1].data # EmptyStr
    /\ ~response[1].parsed
    /\ ~response[1].isError
    /\ ~request.stream

----------------------------------------------------------------------------
(* The query component of the final URL (SpecBuild) *)

\* the part of a url after its first "?", empty when there is none
RECURSIVE QueryOf(_)
QueryOf(url) ==
    IF url = <<>> THEN <<>>
    ELSE IF Head(url) = "?" THEN Tail(url)
    ELSE QueryOf(Tail(url))

\* C30: the query component of the url handed to fetch is the string built from
\* the enabled params with a key, and the part before it is the base url without
\* its own query string, whatever the params list holds
C30_QueryOnlyFromParams ==
    Sent => /\ QueryOf(Wire.url) = QueryString(SentReq)
            /\ SplitFirst(Wire.url, "?") = SplitFirst(SentReq.url, "?")

----------------------------------------------------------------------------
(* The loading flag and the handle of an execution in flight (Spec) *)

\* C31: while an execution is suspended at an await with its controller not
\* aborted, loading is true and abortControllerRef holds its controller
C31_InFlightHoldsHandle ==
    \A e \in Execs : InFlight(e) => (loading /\ abortControllerRef = e)

----------------------------------------------------------------------------
(* The recording of executions (Spec) *)

\* execution e returns without a response in this step
Abandons(e) == execs[e].pc \in Pending /\ execs'[e].pc \in {"cancelled", "failed"}

\* C35: an execution that settles with a response (buffered, end of stream or
\* opaque) puts one entry for its request at the head of the history it holds, in
\* the step in which it returns; an execution that is cancelled or fails on the
\* network leaves the history as it is; a returned execution records nothing more
C35_OneEntryPerResponse ==
    [][/\ \A e \in Execs :
             /\ Records(e) =>
                   /\ Len(history') = Len(execs[e].hist) + 1
                   /\ history'[1].url = execs[e].req.url
                   /\ history'[1].method = execs[e].req.method
                   /\ history'[1].timestamp = now
                   /\ Tail(history') = execs[e].hist
             /\ Abandons(e) => history' = history
             /\ execs[e].pc \in Returned => execs'[e] = execs[e]
       /\ history' # history => \E e \in Execs : Records(e)]_vars

\* one execution was answered, one cancelled and one failed on the network, and
\* the history holds one entry
C35_Witness ==
    /\ Len(execs) = 3
    /\ \E e \in Execs : execs[e].pc = "settled"
    /\ \E e \in Execs : execs[e].pc = "cancelled"
    /\ \E e \in Execs : execs[e].pc = "failed"
    /\ Len(history) = 1
    /\ ~loading

----------------------------------------------------------------------------
(* Properties of the history (SpecHistory) *)

\* C32: when an execution records its entry, every entry behind the new one is
\* an entry of the history as the user last left it, with the pin state it has
\* there (nothing deleted or cleared comes back, no pin state is undone)
C32_HistoryEditsKept ==
    [][\A e \in Execs :
          Records(e) =>
             \A i \in 2..Len(history') : \E j \in 1..Len(history) : history[j] = history'[i]]_vars

\* C33: the recording of an entry removes no pinned entry from the history
C33_PinnedSurvivesRecording ==
    [][\A e \in Execs :
          Records(e) =>
             \A j \in 1..Len(history) :
                history[j].pinned => \E i \in 1..Len(history') : history'[i].id = history[j].id]_vars

\* C34: the history never holds more than 50 entries and is ordered newest
\* first; a recording puts the new, unpinned entry first, followed by the list it
\* was added to without the entries that no longer fit, which are taken from the
\* end of that list
C34_HistoryCapped ==
    /\ [](/\ Len(history) <= HistoryCap
          /\ \A i \in 1..Len(history) : \A j \in i..Len(history) :
                history[i].timestamp >= history[j].timestamp)
    /\ [][\A e \in Execs :
             Records(e) =>
                LET hist == execs[e].hist
                    kept == IF Len(hist) < HistoryCap THEN Len(hist) ELSE HistoryCap - 1
                IN  /\ history' # <<>>
                    /\ history'[1].timestamp = now
                    /\ history'[1].id = NumToString(now)
                    /\ ~history'[1].pinned
                    /\ Tail(history') = SubSeq(hist, 1, kept)]_vars

\* a request was recorded into a full history: the list is still full, the new
\* entry is first and the oldest saved entry is gone
C34_Witness ==
    /\ Len(history) = HistoryCap
    /\ execs # <<>>
    /\ execs[1].pc = "settled"
    /\ history[1].timestamp >= ClockBase
    /\ history[HistoryCap].timestamp = ClockBase - (HistoryCap - 1)

----------------------------------------------------------------------------
(* The header list after a body-type switch (SpecSwitch) *)

ContentTypeRows(headers) == SelectSeq(headers, LAMBDA h : IsContentType(h.key))
OtherRows(headers) == SelectSeq(headers, LAMBDA h : ~IsContentType(h.key))
KeysAndValues(headers) == [i \in 1..Len(headers) |-> <<headers[i].key, headers[i].value>>]

\* C36: after a switch to json, text or x-www-form-urlencoded the header list
\* has one row whose key is Content-Type in any spelling, enabled and with the
\* media type of the new body type; after a switch to none, file or form-data it
\* has none; the other rows are the earlier ones in their order, an empty last
\* row added when there was none; a second switch to the same type gives a list
\* with the same keys and values
C36_OneContentTypeRow ==
    [][\A type \in BodyTypes :
          handleBodyTypeChange(type) =>
             LET rows == ContentTypeRows(request'.headers)
                 before == OtherRows(request.headers)
                 after == OtherRows(request'.headers)
             IN  /\ request'.bodyType = type
                 /\ IF type \in {"json", "text", "x-www-form-urlencoded"}
                    THEN /\ Len(rows) = 1
                         /\ rows[1].enabled
                         /\ rows[1].value =
                               (CASE type = "json" -> <<"application/json">>
                                  [] type = "text" -> <<"text/plain">>
                                  [] OTHER -> <<"application/x-www-form-urlencoded">>)
                    ELSE rows = <<>>
                 /\ Len(after) \in {Len(before), Len(before) + 1}
                 /\ SubSeq(after, 1, Len(before)) = before
                 /\ Len(after) > Len(before) =>
                       (after[Len(after)].key = EmptyStr /\ after[Len(after)].value = EmptyStr)
                 /\ KeysAndValues(SwitchedHeaders(request'.headers, type)) =
                       KeysAndValues(request'.headers)]_vars

\* two switches to json at different clock values, from a list that held two
\* spellings of Content-Type around another header
C36_Witness ==
    /\ request.bodyType = "json"
    /\ Len(request.headers) = 3
    /\ request.headers[1].id = NumToString(ClockBase + 1)
    /\ request.headers[1].value = <<"application/json">>
    /\ request.headers[2].key = <<"Y">>
    /\ ~request.headers[2].enabled
    /\ request.headers[3].key = EmptyStr
    /\ request.headers[3].id = NumToString(ClockBase) \o <<"empty">>

=============================================================================
